---------------------------- MODULE Spec2Model ----------------------------
(***************************************************************************)
(* Gaia / GaiaPTP: initial state of the procedural tectonic planet.        *)
(*                                                                         *)
(* The model follows the plugin's sources: FFibonacciSphere (sampling),    *)
(* FTectonicSeeding (seeds, nearest-seed assignment), FCrustInitialization *)
(* (plate classification, crust synthesis, plate dynamics, boundary        *)
(* detection) and UPTPPlanetComponent (configuration, settings hash,       *)
(* RebuildPlanet).                                                         *)
(*                                                                         *)
(* Numbers.  The sources compute in float; the model computes in fixed     *)
(* point with Unit steps per 1.0 (km, My, radians and unit-vector          *)
(* components are all held in 1/Unit).  Array indices and plate ids are    *)
(* the source's 0-based values; a TArray is a sequence, so element i of    *)
(* the source is element i + 1 of the sequence.                            *)
(***************************************************************************)
EXTENDS Integers, Sequences, FiniteSets, TLC

VARIABLES
    Planet,     \* the UPTPPlanetComponent: its configuration and generated data
    Settings,   \* the project-wide UGaiaPTPSettings defaults (GetDefault<>)
    hist,       \* observer: what was called last, how often, and snapshots
    args,       \* arguments of the library function under call
    out,        \* the function's output arrays (they hold a value before the call)
    tasks,      \* fork-join stage: the per-plate / per-point tasks in flight
    pc          \* position of the caller

vars == <<Planet, Settings, hist, args, out, tasks, pc>>

(***************************************************************************)
(* Bounds of the model.                                                    *)
(***************************************************************************)
MaxPts    == 3      \* most points in a point array
MaxPlates == 3      \* most seeds / plates
MaxSeed   == 5      \* seeds range over 0..MaxSeed

(***************************************************************************)
(* Fixed point and vectors (FVector).                                      *)
(***************************************************************************)
Unit == 1000

Abs(x) == IF x < 0 THEN -x ELSE x
Min2(a, b) == IF a < b THEN a ELSE b
Max2(a, b) == IF a > b THEN a ELSE b

\* Division rounded to nearest (float arithmetic rounds to nearest).
RoundDiv(a, b) == IF a >= 0 THEN (2 * a + b) \div (2 * b)
                            ELSE -((2 * (-a) + b) \div (2 * b))

RECURSIVE SqrtSearch(_, _, _)
SqrtSearch(n, lo, hi) ==
    IF lo >= hi THEN lo
    ELSE LET mid == (lo + hi + 1) \div 2
         IN  IF mid * mid <= n THEN SqrtSearch(n, mid, hi)
                               ELSE SqrtSearch(n, lo, mid - 1)

\* FMath::Sqrt on a value held in 1/Unit^2, result in 1/Unit.
Sqrt(n) == SqrtSearch(n, 0, 46340)

ZeroVector == <<0, 0, 0>>

DotProduct(A, B) == A[1] * B[1] + A[2] * B[2] + A[3] * B[3]

\* FVector::GetSafeNormal: the zero vector below the tolerance, else V / |V|.
GetSafeNormal(V) ==
    LET SquareSum == DotProduct(V, V)
    IN  IF SquareSum = 0 THEN ZeroVector
        ELSE LET Size == Sqrt(SquareSum)
             IN  <<RoundDiv(V[1] * Unit, Size),
                   RoundDiv(V[2] * Unit, Size),
                   RoundDiv(V[3] * Unit, Size)>>

(***************************************************************************)
(* FFibonacciSphere::GeneratePoints.                                       *)
(***************************************************************************)
\* cos and sin of i * GoldenAngle, GoldenAngle = PI * (3 - sqrt 5), in 1/Unit.
GoldenCos == <<1000, -737, 87, 608, -985, 844, -260, -461, 939, -924, 424, 299>>
GoldenSin == <<0, 675, -996, 794, -174, -537, 966, -887, 343, 382, -906, 954>>

FibonacciPoint(i, N, RadiusKm) ==
    LET y == Unit - ((2 * i + 1) * Unit) \div N           \* 1 - 2t, t = (i + 0.5) / N
        r == Sqrt(Max2(0, Unit * Unit - y * y))
        x == RoundDiv(r * GoldenCos[i + 1], Unit)
        z == RoundDiv(r * GoldenSin[i + 1], Unit)
    IN  <<x * RadiusKm, y * RadiusKm, z * RadiusKm>>

\* OutPoints.Reset(N) discards the old content; N <= 0 leaves the array empty.
GeneratePointsNoReset(N, RadiusKm, OutPoints) ==
    IF N <= 0 THEN OutPoints
    ELSE OutPoints \o [k \in 1..N |-> FibonacciPoint(k - 1, N, RadiusKm)]
GeneratePoints(N, RadiusKm, OutPoints) ==
    IF N <= 0 THEN << >>
    ELSE [k \in 1..N |-> FibonacciPoint(k - 1, N, RadiusKm)]

(***************************************************************************)
(* FTectonicSeeding.                                                       *)
(***************************************************************************)
GeneratePlateSeeds(NumPlates) ==
    IF NumPlates <= 0 THEN << >>
    ELSE LET Temp == GeneratePoints(NumPlates, 1, << >>)
         IN  [k \in 1..NumPlates |-> GetSafeNormal(Temp[k])]

FLT_MAX == 2147483647

\* The inner loop with "D >= BestDot": the last seed with the largest dot.
RECURSIVE NearestSeedLastWins(_, _, _, _, _)
NearestSeedLastWins(Pn, Seeds, j, BestIdx, BestDot) ==
    IF j >= Len(Seeds) THEN BestIdx
    ELSE LET D == DotProduct(Pn, Seeds[j + 1])
         IN  IF D >= BestDot THEN NearestSeedLastWins(Pn, Seeds, j + 1, j, D)
                             ELSE NearestSeedLastWins(Pn, Seeds, j + 1, BestIdx, BestDot)

\* The inner loop over the seeds: the first seed with the strictly largest dot.
RECURSIVE NearestSeed(_, _, _, _, _)
NearestSeed(Pn, Seeds, j, BestIdx, BestDot) ==
    IF j >= Len(Seeds) THEN BestIdx
    ELSE LET D == DotProduct(Pn, Seeds[j + 1])
         IN  IF D > BestDot THEN NearestSeed(Pn, Seeds, j + 1, j, D)
                            ELSE NearestSeed(Pn, Seeds, j + 1, BestIdx, BestDot)

\* TArray::SetNumUninitialized: kept elements keep their value, new ones hold g.
SetNumUninitialized(Arr, N, g) ==
    [k \in 1..N |-> IF k <= Len(Arr) THEN Arr[k] ELSE g]

\* The list the source appends point i to.
AddPointOffByOne(List, i) == Append(List, i + 1)
AddPoint(List, i) == Append(List, i)

\* The outer loop.  OutPlateToPoints[BestIdx] with BestIdx outside the array
\* (no seeds: BestIdx stays 0) is an access outside the array: the run stops
\* there (oob), after OutPointToPlate[i] was written.
RECURSIVE AssignLoop(_, _, _, _, _)
AssignLoop(Points, Seeds, i, PointToPlate, PlateToPoints) ==
    IF i >= Len(Points)
    THEN [PointToPlate |-> PointToPlate, PlateToPoints |-> PlateToPoints, oob |-> FALSE]
    ELSE LET Pn      == GetSafeNormal(Points[i + 1])
             BestIdx == NearestSeed(Pn, Seeds, 0, 0, -FLT_MAX)
             P2P     == [PointToPlate EXCEPT ![i + 1] = BestIdx]
         IN  IF BestIdx >= Len(PlateToPoints)
             THEN [PointToPlate |-> P2P, PlateToPoints |-> PlateToPoints, oob |-> TRUE]
             ELSE AssignLoop(Points, Seeds, i + 1, P2P,
                      [PlateToPoints EXCEPT ![BestIdx + 1] = AddPoint(@, i)])

\* g: what the uninitialized new elements of OutPointToPlate happen to hold.
AssignPointsToSeeds(Points, Seeds, OutPointToPlate, OutPlateToPoints, g) ==
    AssignLoop(Points, Seeds, 0,
               SetNumUninitialized(OutPointToPlate, Len(Points), g),
               [j \in 1..Len(Seeds) |-> << >>])

(***************************************************************************)
(* FRandomStream (engine type): a linear congruential generator whose      *)
(* fraction is taken from the top bits of the mutated seed.  The model     *)
(* keeps the construction at 16 bits of state and 6 bits of fraction.      *)
(***************************************************************************)
\* FRandomStream(int32 InSeed)
RandomStream(InSeed) == InSeed % 65536

MutateSeed(s) == (s * 25173 + 13849) % 65536

\* The fraction in [0, 1) drawn from stream state s, as k / 64.
GetFraction(s) == MutateSeed(s) \div 1024

\* FRandRange(Min, Max) = Min + (Max - Min) * FRand(), drawn from state s;
\* the stream is at MutateSeed(s) afterwards.
FRandRange(s, InMin, InMax) == InMin + ((InMax - InMin) * GetFraction(s)) \div 64

\* RandRange(Min, Max) = Min + RandHelper(Max - Min + 1), RandHelper(A) in 0..A-1.
RandRange(s, InMin, InMax) ==
    LET Range == (InMax - InMin) + 1
    IN  InMin + (IF Range > 0 THEN (GetFraction(s) * Range) \div 64 ELSE 0)

(***************************************************************************)
(* FMath helpers.                                                          *)
(***************************************************************************)
Clamp(x, lo, hi) == IF x < lo THEN lo ELSE IF x > hi THEN hi ELSE x

\* FMath::RoundToInt(x) = floor(x + 0.5), x held in 1/Unit.
TruncToInt(x) == x \div Unit
RoundToInt(x) == (2 * x + Unit) \div (2 * Unit)

\* FMath::Lerp(A, B, Alpha) = A + Alpha * (B - A), Alpha in 1/Unit.
Lerp(A, B, Alpha) == A + RoundDiv(Alpha * (B - A), Unit)

\* acos in 1/Unit radians at c = -1, -0.95, ..., 1; linear in between.
AcosTable == <<3142, 2824, 2691, 2587, 2498, 2419, 2346, 2278, 2214, 2153,
               2094, 2038, 1982, 1928, 1875, 1823, 1772, 1721, 1671, 1621,
               1571, 1521, 1471, 1420, 1369, 1318, 1266, 1213, 1159, 1104,
               1047, 988, 927, 863, 795, 723, 644, 555, 451, 318, 0>>

Acos(c) ==
    LET cc == Clamp(c, -Unit, Unit)
        k  == (cc + Unit) \div 50
        f  == (cc + Unit) % 50
    IN  IF k >= 40 THEN AcosTable[41]
        ELSE AcosTable[k + 1] + RoundDiv((AcosTable[k + 2] - AcosTable[k + 1]) * f, 50)

PI == 3142

CrossProduct(A, B) ==
    <<RoundDiv(A[2] * B[3] - A[3] * B[2], Unit),
      RoundDiv(A[3] * B[1] - A[1] * B[3], Unit),
      RoundDiv(A[1] * B[2] - A[2] * B[1], Unit)>>

\* FVector::Normalize: in place; a vector below the tolerance is left as it is.
Normalize(V) == IF DotProduct(V, V) = 0 THEN V ELSE GetSafeNormal(V)

VecAdd(A, B) == <<A[1] + B[1], A[2] + B[2], A[3] + B[3]>>
VecSub(A, B) == <<A[1] - B[1], A[2] - B[2], A[3] - B[3]>>
VecDiv(A, n) == <<RoundDiv(A[1], n), RoundDiv(A[2], n), RoundDiv(A[3], n)>>

(***************************************************************************)
(* FCrustInitialization::ClassifyPlates.                                   *)
(***************************************************************************)
Swap(Arr, i, j) == [Arr EXCEPT ![i + 1] = Arr[j + 1], ![j + 1] = Arr[i + 1]]

\* The Fisher-Yates loop for (i = NumPlates - 1; i > 0; --i), stream at s.
RECURSIVE ShuffleLoop(_, _, _)
ShuffleLoop(PlateIndices, i, s) ==
    IF i <= 0 THEN PlateIndices
    ELSE ShuffleLoop(Swap(PlateIndices, i, RandRange(s, 0, i)), i - 1, MutateSeed(s))

\* PlateIndices after the shuffle.
ShufflePlates(NumPlates, Seed) ==
    ShuffleLoop([k \in 1..NumPlates |-> k - 1], NumPlates - 1, RandomStream(Seed))

NumContinentalTrunc(NumPlates, ContinentalRatio) == TruncToInt(NumPlates * ContinentalRatio)
NumContinental(NumPlates, ContinentalRatio) == RoundToInt(NumPlates * ContinentalRatio)

\* OutIsPlateContinent[PlateIndices[i]] = (i < NumContinental), written in
\* the order of i; the array is default-initialised (false) by SetNum.
RECURSIVE MarkPlates(_, _, _, _)
MarkPlates(Out, PlateIndices, i, NumCont) ==
    IF i >= Len(PlateIndices) THEN Out
    ELSE MarkPlates([Out EXCEPT ![PlateIndices[i + 1] + 1] = (i < NumCont)],
                    PlateIndices, i + 1, NumCont)

ClassifyPlates(NumPlates, ContinentalRatio, Seed) ==
    MarkPlates([k \in 1..NumPlates |-> FALSE], ShufflePlates(NumPlates, Seed), 0,
               NumContinental(NumPlates, ContinentalRatio))

(***************************************************************************)
(* FCrustInitialization::InitializeCrustData.                              *)
(*                                                                         *)
(* `in` holds the arguments: SamplePoints, PlateToPoints, ContinentalRatio,*)
(* AbyssalPlainElevationKm, HighestOceanicRidgeElevationKm, Seed.          *)
(***************************************************************************)
\* FCrustData(): the default-constructed sample.
DefaultCrust ==
    [Type |-> "Oceanic", Thickness |-> 7 * Unit, Elevation |-> -6 * Unit,
     OceanicAge |-> 0, RidgeDirection |-> ZeroVector,
     OrogenyAge |-> 0, OrogenyType |-> "None", FoldDirection |-> ZeroVector]

\* TArray::SetNum: kept elements keep their value, new ones are default-constructed.
SetNum(Arr, N, Default) ==
    [k \in 1..N |-> IF k <= Len(Arr) THEN Arr[k] ELSE Default]

\* FRandomStream LocalRand(Seed + 1000 + PlateIdx * 10007)
LocalRand(Seed, PlateIdx) == RandomStream(Seed + 1000 + PlateIdx * 10007)

RECURSIVE SumPoints(_, _, _)
SumPoints(SamplePoints, PlatePoints, k) ==
    IF k > Len(PlatePoints) THEN ZeroVector
    ELSE VecAdd(SamplePoints[PlatePoints[k] + 1],
                SumPoints(SamplePoints, PlatePoints, k + 1))

\* The plate centroid WorkPerPlate measures distances from.
PlateCentroid(SamplePoints, PlatePoints) ==
    IF Len(PlatePoints) > 0
    THEN Normalize(VecDiv(SumPoints(SamplePoints, PlatePoints, 1), Len(PlatePoints)))
    ELSE ZeroVector

\* "Reset oceanic fields" of the continental branch.
KeepOceanicFields(Crust) == Crust
ResetOceanicFields(Crust) ==
    [Crust EXCEPT !.OceanicAge = 0, !.RidgeDirection = ZeroVector]

\* "Reset continental fields" of the oceanic branch.
ResetContinentalFields(Crust) ==
    [Crust EXCEPT !.OrogenyAge = 0, !.OrogenyType = "None", !.FoldDirection = ZeroVector]

\* The continental branch; s is LocalRand before its two draws.
ContinentalCrust(Crust, s) ==
    ResetOceanicFields(
        [Crust EXCEPT !.Type = "Continental",
                      !.Thickness = 35 * Unit,
                      !.Elevation = 500 + FRandRange(s, -200, 200),
                      !.OrogenyAge = FRandRange(MutateSeed(s), 500 * Unit, 3000 * Unit),
                      !.OrogenyType = "None",
                      !.FoldDirection = ZeroVector])

\* DistanceAngle / MaxAngle.
DistanceRatio(Point, Centroid) ==
    LET DistanceAngle == Acos(Clamp(RoundDiv(DotProduct(Point, Centroid), Unit),
                                    -Unit, Unit))
        MaxAngle      == PI \div 4
    IN  RoundDiv(DistanceAngle * Unit, MaxAngle)

NormalizedDistUnclamped(Point, Centroid) == DistanceRatio(Point, Centroid)
NormalizedDist(Point, Centroid) == Clamp(DistanceRatio(Point, Centroid), 0, Unit)

\* The oceanic branch.
OceanicCrust(Crust, Point, Centroid, AbyssalPlainElevationKm, HighestOceanicRidgeElevationKm) ==
    LET d             == NormalizedDist(Point, Centroid)
        ToCenter      == Normalize(VecSub(Centroid, Point))
        Perpendicular == CrossProduct(ToCenter, Point)
    IN  ResetContinentalFields(
            [Crust EXCEPT !.Type = "Oceanic",
                          !.Thickness = 7 * Unit,
                          !.Elevation = Lerp(HighestOceanicRidgeElevationKm,
                                             AbyssalPlainElevationKm, d),
                          !.OceanicAge = d * 200,
                          !.RidgeDirection = GetSafeNormal(Perpendicular)])

\* bIsContinental = IsPlateContinent[PlateIdx]
PlateClassOfNext(IsPlateContinent, PlateIdx) ==
    IsPlateContinent[((PlateIdx + 1) % Len(IsPlateContinent)) + 1]
PlateClass(IsPlateContinent, PlateIdx) == IsPlateContinent[PlateIdx + 1]

\* The element of OutCrustData the k-th iteration over PlatePoints writes.
CrustIndexByPosition(PlatePoints, k) == k
CrustIndex(PlatePoints, k) == PlatePoints[k + 1]

\* One iteration of "for (int32 PointIdx : PlatePoints)": iteration k of
\* plate PlateIdx with LocalRand at s.
CrustPointStep(in, IsPlateContinent, PlateIdx, k, s, CrustData) ==
    LET PlatePoints == in.PlateToPoints[PlateIdx + 1]
        PointIdx    == PlatePoints[k + 1]
        At          == CrustIndex(PlatePoints, k)
        Crust       == CrustData[At + 1]
    IN  [CrustData EXCEPT ![At + 1] =
            IF PlateClass(IsPlateContinent, PlateIdx)
            THEN ContinentalCrust(Crust, s)
            ELSE OceanicCrust(Crust, in.SamplePoints[PointIdx + 1],
                              PlateCentroid(in.SamplePoints, PlatePoints),
                              in.AbyssalPlainElevationKm,
                              in.HighestOceanicRidgeElevationKm)]

\* LocalRand after that iteration: a continental point draws twice.
RandAfterPoint(IsPlateContinent, PlateIdx, s) ==
    IF PlateClass(IsPlateContinent, PlateIdx) THEN MutateSeed(MutateSeed(s)) ELSE s

RECURSIVE PlatePointsLoop(_, _, _, _, _, _)
PlatePointsLoop(in, IsPlateContinent, PlateIdx, k, s, CrustData) ==
    IF k >= Len(in.PlateToPoints[PlateIdx + 1]) THEN CrustData
    ELSE PlatePointsLoop(in, IsPlateContinent, PlateIdx, k + 1,
                         RandAfterPoint(IsPlateContinent, PlateIdx, s),
                         CrustPointStep(in, IsPlateContinent, PlateIdx, k, s, CrustData))

WorkPerPlate(in, IsPlateContinent, PlateIdx, CrustData) ==
    PlatePointsLoop(in, IsPlateContinent, PlateIdx, 0,
                    LocalRand(in.Seed, PlateIdx), CrustData)

\* for (PlateIdx = 0; PlateIdx < NumPlates; ++PlateIdx) WorkPerPlate(PlateIdx)
RECURSIVE PlatesLoop(_, _, _, _)
PlatesLoop(in, IsPlateContinent, PlateIdx, CrustData) ==
    IF PlateIdx >= Len(in.PlateToPoints) THEN CrustData
    ELSE PlatesLoop(in, IsPlateContinent, PlateIdx + 1,
                    WorkPerPlate(in, IsPlateContinent, PlateIdx, CrustData))

InitializeCrustData(in, OutCrustData) ==
    PlatesLoop(in,
               ClassifyPlates(Len(in.PlateToPoints), in.ContinentalRatio, in.Seed),
               0,
               SetNum(OutCrustData, Len(in.SamplePoints), DefaultCrust))

(***************************************************************************)
(* FCrustInitialization::InitializePlateDynamics.                          *)
(***************************************************************************)
\* The do-while that draws RandomAxis until SizeSquared() >= 0.01; s is the
\* stream before the draws.
RECURSIVE DrawAxis(_)
DrawAxis(s) ==
    LET s1 == MutateSeed(s)
        s2 == MutateSeed(s1)
        s3 == MutateSeed(s2)
        RandomAxis == <<FRandRange(s, -Unit, Unit), FRandRange(s1, -Unit, Unit),
                        FRandRange(s2, -Unit, Unit)>>
    IN  IF DotProduct(RandomAxis, RandomAxis) < (Unit * Unit) \div 100
        THEN DrawAxis(s3)
        ELSE [RandomAxis |-> RandomAxis, s |-> s3]

\* MaxSpeedKmPerMy / PlanetRadiusKm, in 1/Unit radians per My.
MaxAngularVelocityNoRadius(PlanetRadiusKm, MaxPlateSpeedMmPerYear) ==
    MaxPlateSpeedMmPerYear * Unit
MaxAngularVelocity(PlanetRadiusKm, MaxPlateSpeedMmPerYear) ==
    RoundDiv(MaxPlateSpeedMmPerYear * Unit, PlanetRadiusKm)

RECURSIVE DynamicsLoop(_, _, _, _)
DynamicsLoop(OutPlates, PlateIdx, MaxAngVel, s) ==
    IF PlateIdx >= Len(OutPlates) THEN OutPlates
    ELSE LET d == DrawAxis(s)
         IN  DynamicsLoop(
                 [OutPlates EXCEPT ![PlateIdx + 1] =
                     [@ EXCEPT !.RotationAxis = GetSafeNormal(d.RandomAxis),
                               !.AngularVelocity = FRandRange(d.s, -MaxAngVel, MaxAngVel)]],
                 PlateIdx + 1, MaxAngVel, MutateSeed(d.s))

InitializePlateDynamics(NumPlates, PlanetRadiusKm, MaxPlateSpeedMmPerYear, Seed, OutPlates) ==
    DynamicsLoop(OutPlates, 0,
                 MaxAngularVelocity(PlanetRadiusKm, MaxPlateSpeedMmPerYear),
                 RandomStream(Seed))

(***************************************************************************)
(* FCrustInitialization::DetectPlateBoundaries.                            *)
(***************************************************************************)
IsValidIndex(Arr, Index) == Index >= 0 /\ Index < Len(Arr)

\* TArray::SetNumZeroed: kept elements keep their value, new ones are zero.
SetNumZeroed(Arr, N) ==
    [k \in 1..N |-> IF k <= Len(Arr) THEN Arr[k] ELSE FALSE]

\* The loop over Neighbors[PointIdx] from position k on, with its break.
RECURSIVE ScanNeighborsUnchecked(_, _, _, _)
ScanNeighborsUnchecked(PointPlateIds, List, k, MyPlateId) ==
    IF k > Len(List) THEN FALSE
    ELSE IF \/ ~IsValidIndex(PointPlateIds, List[k])
            \/ PointPlateIds[List[k] + 1] # MyPlateId
         THEN TRUE
         ELSE ScanNeighborsUnchecked(PointPlateIds, List, k + 1, MyPlateId)
RECURSIVE ScanNeighbors(_, _, _, _)
ScanNeighbors(PointPlateIds, List, k, MyPlateId) ==
    IF k > Len(List) THEN FALSE
    ELSE IF /\ IsValidIndex(PointPlateIds, List[k])
            /\ PointPlateIds[List[k] + 1] # MyPlateId
         THEN TRUE
         ELSE ScanNeighbors(PointPlateIds, List, k + 1, MyPlateId)

\* bBoundary as WorkPerPoint computes it.
PointIsBoundaryForward(PointIdx, PointPlateIds, Neighbors) ==
    IF IsValidIndex(Neighbors, PointIdx)
    THEN ScanNeighbors(PointPlateIds,
                       SelectSeq(Neighbors[PointIdx + 1], LAMBDA j : j > PointIdx), 1,
                       PointPlateIds[PointIdx + 1])
    ELSE FALSE
PointIsBoundary(PointIdx, PointPlateIds, Neighbors) ==
    IF IsValidIndex(Neighbors, PointIdx)
    THEN ScanNeighbors(PointPlateIds, Neighbors[PointIdx + 1], 1,
                       PointPlateIds[PointIdx + 1])
    ELSE FALSE

\* OutIsBoundaryPoint[PointIdx] = bBoundary.
StoreFlagOnlyIfSet(Flags, PointIdx, bBoundary) ==
    IF bBoundary THEN [Flags EXCEPT ![PointIdx + 1] = TRUE] ELSE Flags
StoreFlag(Flags, PointIdx, bBoundary) ==
    [Flags EXCEPT ![PointIdx + 1] = bBoundary]

WorkPerPointMarksNext(PointIdx, PointPlateIds, Neighbors, Flags) ==
    LET b == PointIsBoundary(PointIdx, PointPlateIds, Neighbors)
        F == StoreFlag(Flags, PointIdx, b)
    IN  IF b /\ PointIdx + 1 < Len(Flags) THEN StoreFlag(F, PointIdx + 1, TRUE) ELSE F
WorkPerPoint(PointIdx, PointPlateIds, Neighbors, Flags) ==
    StoreFlag(Flags, PointIdx, PointIsBoundary(PointIdx, PointPlateIds, Neighbors))

\* for (i = 0; i < NumPoints; ++i) WorkPerPoint(i)
RECURSIVE BoundaryLoop(_, _, _, _)
BoundaryLoop(i, PointPlateIds, Neighbors, Flags) ==
    IF i >= Len(PointPlateIds) THEN Flags
    ELSE BoundaryLoop(i + 1, PointPlateIds, Neighbors,
                      WorkPerPoint(i, PointPlateIds, Neighbors, Flags))

DetectPlateBoundaries(PointPlateIds, Neighbors, OutIsBoundaryPoint) ==
    BoundaryLoop(0, PointPlateIds, Neighbors,
                 SetNumZeroed(OutIsBoundaryPoint, Len(PointPlateIds)))

(***************************************************************************)
(* UPTPPlanetComponent.                                                    *)
(*                                                                         *)
(* P is the component: its configuration properties and generated data.    *)
(* S is the project-wide settings object RebuildPlanet reads the seed and  *)
(* the oceanic elevation endpoints from.                                   *)
(***************************************************************************)
\* GetTypeHash of an int32 or of a float's bit pattern: one word per value.
GetTypeHash(x) == x % 65536

\* HashCombine (engine): a mix of two words, kept at 16 bits in the model.
HashCombine(A, C) == (A * 31 + C + 17) % 65521

ComputeSettingsHash(P) ==
    HashCombine(
        HashCombine(
            HashCombine(
                HashCombine(0, GetTypeHash(P.NumSamplePoints)),
                GetTypeHash(P.NumPlates)),
            GetTypeHash(P.PlanetRadiusKm)),
        GetTypeHash(P.VisualizationScale))

\* The early return: "settings unchanged and data already generated".
NeverSkip(CurrentHash, P) == FALSE
SkipRebuild(CurrentHash, P) ==
    CurrentHash = P.CachedSettingsHash /\ Len(P.SamplePoints) > 0

UpVector == <<0, 0, Unit>>

\* FTectonicPlate() with PlateId, PointIndices and CentroidDir set as the
\* "Build plate structs" loop sets them.
NewPlateOneBased(p, PlateToPoints, Seeds) ==
    [PlateId |-> p + 1,
     PointIndices |-> PlateToPoints[p + 1],
     CentroidDir |-> IF IsValidIndex(Seeds, p) THEN Seeds[p + 1] ELSE ZeroVector,
     RotationAxis |-> UpVector,
     AngularVelocity |-> 0]
NewPlate(p, PlateToPoints, Seeds) ==
    [PlateId |-> p,
     PointIndices |-> PlateToPoints[p + 1],
     CentroidDir |-> IF IsValidIndex(Seeds, p) THEN Seeds[p + 1] ELSE ZeroVector,
     RotationAxis |-> UpVector,
     AngularVelocity |-> 0]

\* RebuildPlanet past its early return.  The result is the component after
\* the call and whether the call came to an access outside an array (with no
\* seed, AssignPointsToSeeds indexes the empty OutPlateToPoints; the sample
\* points, their count and the cached hash are stored by then).  The local
\* PointToPlate array starts uninitialized; every element is written before
\* the array is stored, so the stored value does not depend on what it held.
FullRebuild(P, S) ==
    LET CurrentHash == ComputeSettingsHash(P)
        Points == GeneratePoints(P.NumSamplePoints, P.PlanetRadiusKm, P.SamplePoints)
        P1 == [P EXCEPT !.SamplePoints = Points,
                        !.NumGeneratedPoints = Len(Points),
                        !.CachedSettingsHash = CurrentHash]
        Seeds == GeneratePlateSeeds(P.NumPlates)
        a == AssignPointsToSeeds(Points, Seeds, << >>, << >>, 0)
    IN  IF a.oob \/ P.NumPlates < 0
        THEN [Planet |-> P1, crashed |-> TRUE]
        ELSE LET NewPlates == [k \in 1..P.NumPlates |->
                                   NewPlate(k - 1, a.PlateToPoints, Seeds)]
                 NewCrustData ==
                     InitializeCrustData(
                         [SamplePoints |-> Points,
                          PlateToPoints |-> a.PlateToPoints,
                          ContinentalRatio |-> P.ContinentalRatio,
                          AbyssalPlainElevationKm |-> S.AbyssalPlainElevationKm,
                          HighestOceanicRidgeElevationKm |->
                              S.HighestOceanicRidgeElevationKm,
                          Seed |-> S.InitialSeed],
                         << >>)
                 Plates == InitializePlateDynamics(
                               P.NumPlates, P.PlanetRadiusKm,
                               P.MaxPlateSpeedMmPerYear, S.InitialSeed + 100,
                               NewPlates)
             IN  [Planet |-> [P1 EXCEPT !.Plates = Plates,
                                        !.PointPlateIds = a.PointToPlate,
                                        !.CrustData = NewCrustData,
                                        !.NumPlatesGenerated = Len(Plates)],
                  crashed |-> FALSE]

RebuildPlanetOp(P, S) ==
    IF SkipRebuild(ComputeSettingsHash(P), P)
    THEN [Planet |-> P, crashed |-> FALSE]
    ELSE FullRebuild(P, S)

\* The configuration properties of the component that generation reads.
ConfigFields == {"NumSamplePoints", "NumPlates", "PlanetRadiusKm",
                 "ContinentalRatio", "MaxPlateSpeedMmPerYear"}
Config(P) == [f \in ConfigFields |-> P[f]]

\* The generated data and counters of the component.
GeneratedData(P) ==
    [SamplePoints |-> P.SamplePoints, PointPlateIds |-> P.PointPlateIds,
     Plates |-> P.Plates, CrustData |-> P.CrustData,
     CachedSettingsHash |-> P.CachedSettingsHash,
     NumGeneratedPoints |-> P.NumGeneratedPoints,
     NumPlatesGenerated |-> P.NumPlatesGenerated]

\* The component as constructed, with configuration c.
NewComponent(c) ==
    [NumSamplePoints |-> c.NumSamplePoints, NumPlates |-> c.NumPlates,
     PlanetRadiusKm |-> c.PlanetRadiusKm, VisualizationScale |-> 100,
     ContinentalRatio |-> c.ContinentalRatio,
     MaxPlateSpeedMmPerYear |-> c.MaxPlateSpeedMmPerYear,
     HighestOceanicRidgeElevationKm |-> -Unit,
     AbyssalPlainElevationKm |-> -6 * Unit,
     SamplePoints |-> << >>, PointPlateIds |-> << >>, Plates |-> << >>,
     CrustData |-> << >>, CachedSettingsHash |-> 0,
     NumGeneratedPoints |-> 0, NumPlatesGenerated |-> 0,
     Neighbors |-> << >>, Triangles |-> << >>, NumTriangles |-> 0,
     IsBoundaryPoint |-> << >>]

(***************************************************************************)
(* Sequences of bounded length.                                            *)
(***************************************************************************)
SeqUpTo(S, n) == UNION {[1..k -> S] : k \in 0..n}

SeqToSet(s) == {s[k] : k \in 1..Len(s)}

RECURSIVE Concat(_)
Concat(ss) == IF ss = << >> THEN << >> ELSE Head(ss) \o Concat(Tail(ss))

\* Values an uninitialized int32 may hold.
Garbage == {-1, 7}

NoPlanet   == [none |-> TRUE]
NoSettings == [none |-> TRUE]
NoHist     == [none |-> TRUE]
NoArgs     == [none |-> TRUE]
NoOut      == [none |-> TRUE]
NoTasks    == << >>

(***************************************************************************)
(* SpecSeed: AssignPointsToSeeds called on any point array and seeding.    *)
(***************************************************************************)
\* Points a caller may pass: on the sphere of radius 1 or 2, and the origin.
PointChoices == {<<0, 2 * Unit, 0>>, <<0, 0, -Unit>>, <<600, 800, 0>>, ZeroVector}
\* Unit seed directions.
SeedChoices == {<<Unit, 0, 0>>, <<0, Unit, 0>>, <<0, 0, -Unit>>}

InitSeed ==
    /\ Planet = NoPlanet /\ Settings = NoSettings /\ hist = NoHist /\ tasks = NoTasks
    /\ \E P \in SeqUpTo(PointChoices, MaxPts), S \in SeqUpTo(SeedChoices, MaxPlates) :
           args = [Points |-> P, Seeds |-> S]
    /\ \E old \in {<< >>, <<5, 5>>}, oldLists \in {<< >>, << <<0, 1>> >>} :
           out = [PointToPlate |-> old, PlateToPoints |-> oldLists]
    /\ pc = "call"

CallAssignPointsToSeeds ==
    /\ pc = "call"
    /\ \E g \in Garbage :
         LET r == AssignPointsToSeeds(args.Points, args.Seeds,
                                      out.PointToPlate, out.PlateToPoints, g)
         IN  /\ out' = [PointToPlate |-> r.PointToPlate, PlateToPoints |-> r.PlateToPoints]
             /\ pc' = IF r.oob THEN "crashed" ELSE "returned"
    /\ UNCHANGED <<Planet, Settings, hist, args, tasks>>

NextSeed == CallAssignPointsToSeeds

SpecSeed == InitSeed /\ [][NextSeed]_vars

\* How often point index i occurs in all plates' lists taken together.
Occurrences(Lists, i) ==
    Cardinality({<<p, k>> \in (1..Len(Lists)) \X (1..MaxPts + 1) :
                     k <= Len(Lists[p]) /\ Lists[p][k] = i})

PartitionComplete(Lists, N) ==
    /\ \A i \in 0..N - 1 : Occurrences(Lists, i) = 1
    /\ \A p \in 1..Len(Lists) : \A k \in 1..Len(Lists[p]) : Lists[p][k] \in 0..N - 1

SeedDot(Points, Seeds, i, j) == DotProduct(GetSafeNormal(Points[i + 1]), Seeds[j + 1])

\* C11: with at least one seed, every point is stored with a seed index whose
\* dot product with the normalized point is maximal over all seeds, and
\* every seed with a smaller index has a strictly smaller dot product.
C11_NearestSeedLowestIndex ==
    (pc # "call" /\ Len(args.Seeds) >= 1) =>
        /\ pc = "returned"
        /\ Len(out.PointToPlate) = Len(args.Points)
        /\ \A i \in 0..Len(args.Points) - 1 :
             LET b == out.PointToPlate[i + 1]
             IN  /\ b \in 0..Len(args.Seeds) - 1
                 /\ \A j \in 0..Len(args.Seeds) - 1 :
                        SeedDot(args.Points, args.Seeds, i, j)
                            <= SeedDot(args.Points, args.Seeds, i, b)
                 /\ \A j \in 0..b - 1 :
                        SeedDot(args.Points, args.Seeds, i, j)
                            < SeedDot(args.Points, args.Seeds, i, b)

\* A returned call in which one point has two seeds at its maximum and is
\* stored with the lower one, and another point is stored with a later seed.
C11_Witness ==
    /\ pc = "returned" /\ Len(args.Seeds) >= 2
    /\ \E i \in 0..Len(args.Points) - 1 :
         \E j \in 0..Len(args.Seeds) - 1 :
            /\ j > out.PointToPlate[i + 1]
            /\ SeedDot(args.Points, args.Seeds, i, j)
                   = SeedDot(args.Points, args.Seeds, i, out.PointToPlate[i + 1])
    /\ \E i \in 0..Len(args.Points) - 1 : out.PointToPlate[i + 1] >= 1

(***************************************************************************)
(* SpecBoundary: DetectPlateBoundaries called on plate ids and adjacency.  *)
(***************************************************************************)
\* A neighbor list of point i lists i + d for some of these offsets d; at the
\* ends of the index range such an index is outside the plate-id array.
NbrOffsets == {-1, 1, 2}

RECURSIVE SortedSeq(_)
SortedSeq(S) ==
    IF S = {} THEN << >>
    ELSE LET m == CHOOSE x \in S : \A y \in S : x <= y
         IN  <<m>> \o SortedSeq(S \ {m})

NeighborArrays(n) ==
    UNION {[1..k -> SUBSET NbrOffsets] : k \in 0..n}

OffsetsToLists(offs) ==
    [i \in 1..Len(offs) |-> SortedSeq({(i - 1) + d : d \in offs[i]})]

ChainPlateIds  == <<0, 0, 0, 1, 1, 1>>
ChainNeighbors == << <<1>>, <<0, 2>>, <<1, 3>>, <<2, 4>>, <<3, 5>>, <<4>> >>
ChainFlags     == <<FALSE, FALSE, TRUE, TRUE, FALSE, FALSE>>

InitBoundary ==
    /\ Planet = NoPlanet /\ Settings = NoSettings /\ hist = NoHist /\ tasks = NoTasks
    /\ \/ \E n \in 0..MaxPts :
            \E ids \in [1..n -> {0, 1}], offs \in NeighborArrays(n) :
                args = [PointPlateIds |-> ids, Neighbors |-> OffsetsToLists(offs)]
       \/ args = [PointPlateIds |-> ChainPlateIds, Neighbors |-> ChainNeighbors]
    /\ \E old \in {<< >>, [k \in 1..Len(args.PointPlateIds) + 1 |-> TRUE]} :
           out = [IsBoundaryPoint |-> old]
    /\ pc = "call"

CallDetectPlateBoundaries ==
    /\ pc = "call"
    /\ out' = [IsBoundaryPoint |->
                  DetectPlateBoundaries(args.PointPlateIds, args.Neighbors,
                                        out.IsBoundaryPoint)]
    /\ pc' = "returned"
    /\ UNCHANGED <<Planet, Settings, hist, args, tasks>>

NextBoundary == CallDetectPlateBoundaries

SpecBoundary == InitBoundary /\ [][NextBoundary]_vars

\* Point i has a neighbor on another plate (i and the neighbor 0-based).
HasForeignNeighbor(ids, nbrs, i) ==
    /\ i + 1 <= Len(nbrs)
    /\ \E k \in 1..Len(nbrs[i + 1]) :
           LET j == nbrs[i + 1][k]
           IN  j >= 0 /\ j < Len(ids) /\ ids[j + 1] # ids[i + 1]

\* C2: one flag per plate id; flag i is true iff some index in i's neighbor
\* list has a plate id other than i's, whatever the array held before the
\* call; the 6-point chain gives [F, F, T, T, F, F].
C2_BoundaryIff ==
    pc = "returned" =>
        /\ Len(out.IsBoundaryPoint) = Len(args.PointPlateIds)
        /\ \A i \in 0..Len(args.PointPlateIds) - 1 :
               out.IsBoundaryPoint[i + 1]
                   <=> HasForeignNeighbor(args.PointPlateIds, args.Neighbors, i)
        /\ (args.PointPlateIds = ChainPlateIds /\ args.Neighbors = ChainNeighbors)
               => out.IsBoundaryPoint = ChainFlags

C2_Witness ==
    /\ pc = "returned"
    /\ args.PointPlateIds = ChainPlateIds
    /\ args.Neighbors = ChainNeighbors
    /\ out.IsBoundaryPoint = ChainFlags

\* The neighbor lists without the indices that are outside the id array.
InRangeOnly(ids, nbrs) ==
    [i \in 1..Len(nbrs) |->
        SelectSeq(nbrs[i], LAMBDA j : j >= 0 /\ j < Len(ids))]

\* C18: the call returns one flag per point; a point whose index has no
\* neighbor list (the neighbor array is shorter than the point array, or
\* empty) has flag false; neighbor indices outside the plate-id array count
\* for nothing: a list holding only such indices gives false, and the flags
\* are those of the same lists with these indices removed.
C18_MissingAdjacency ==
    pc = "returned" =>
        LET ids  == args.PointPlateIds
            nbrs == args.Neighbors
        IN  /\ Len(out.IsBoundaryPoint) = Len(ids)
            /\ \A i \in 0..Len(ids) - 1 :
                   i >= Len(nbrs) => out.IsBoundaryPoint[i + 1] = FALSE
            /\ \A i \in 0..Len(ids) - 1 :
                   (/\ i < Len(nbrs)
                    /\ \A k \in 1..Len(nbrs[i + 1]) :
                           nbrs[i + 1][k] < 0 \/ nbrs[i + 1][k] >= Len(ids))
                       => out.IsBoundaryPoint[i + 1] = FALSE
            /\ out.IsBoundaryPoint
                   = DetectPlateBoundaries(ids, InRangeOnly(ids, nbrs), << >>)

\* Three points on one plate and two neighbor lists: point 0 lists -1 and 1,
\* point 2 has no list, the array held TRUE flags, and every flag is false.
C18_Witness ==
    /\ pc = "returned"
    /\ args.PointPlateIds = <<0, 0, 0>>
    /\ Len(args.Neighbors) = 2
    /\ args.Neighbors[1] = <<-1, 1>>
    /\ out.IsBoundaryPoint = <<FALSE, FALSE, FALSE>>

\* Every listed index is a point, and j in i's list puts i in j's list.
SymmetricValid(ids, nbrs) ==
    /\ Len(nbrs) <= Len(ids)
    /\ \A i \in 1..Len(nbrs) : \A k \in 1..Len(nbrs[i]) :
           LET j == nbrs[i][k]
           IN  /\ j >= 0 /\ j < Len(ids)
               /\ j < Len(nbrs)
               /\ \E m \in 1..Len(nbrs[j + 1]) : nbrs[j + 1][m] = i - 1

\* C30: when every neighbor index is valid and the neighbor relation is
\* symmetric, every flagged point has a neighbor that is flagged too and is
\* on another plate; when all points have one plate id no point is flagged.
C30_BoundaryPairs ==
    pc = "returned" =>
        LET ids  == args.PointPlateIds
            nbrs == args.Neighbors
        IN  /\ SymmetricValid(ids, nbrs) =>
                \A i \in 1..Len(ids) :
                    out.IsBoundaryPoint[i] =>
                        \E k \in 1..Len(nbrs[i]) :
                            /\ out.IsBoundaryPoint[nbrs[i][k] + 1]
                            /\ ids[nbrs[i][k] + 1] # ids[i]
            /\ (\A i, j \in 1..Len(ids) : ids[i] = ids[j]) =>
                   \A i \in 1..Len(out.IsBoundaryPoint) : ~out.IsBoundaryPoint[i]

\* Three points in a row, the first on its own plate: the first two are
\* flagged, each the other's neighbor, the third is not.
C30_Witness ==
    /\ pc = "returned"
    /\ args.PointPlateIds = <<0, 1, 1>>
    /\ args.Neighbors = << <<1>>, <<0, 2>>, <<1>> >>
    /\ SymmetricValid(args.PointPlateIds, args.Neighbors)
    /\ out.IsBoundaryPoint = <<TRUE, TRUE, FALSE>>

(***************************************************************************)
(* SpecClassify: ClassifyPlates called for any plate count, ratio, seed.   *)
(***************************************************************************)
\* Continental ratios in [0, 1], in 1/Unit.
RatioChoices == {0, 250, 300, 500, 750, 1000}

InitClassify ==
    /\ Planet = NoPlanet /\ Settings = NoSettings /\ hist = NoHist /\ tasks = NoTasks
    /\ \E M \in 0..MaxPlates + 1, f \in RatioChoices, S \in 0..MaxSeed + 4 :
           args = [NumPlates |-> M, ContinentalRatio |-> f, Seed |-> S]
    /\ out = [IsPlateContinent |-> << >>, PlateIndices |-> << >>]
    /\ pc = "call"

CallClassifyPlates ==
    /\ pc = "call"
    /\ out' = [IsPlateContinent |->
                   ClassifyPlates(args.NumPlates, args.ContinentalRatio, args.Seed),
               PlateIndices |-> ShufflePlates(args.NumPlates, args.Seed)]
    /\ pc' = "returned"
    /\ UNCHANGED <<Planet, Settings, hist, args, tasks>>

NextClassify == CallClassifyPlates

SpecClassify == InitClassify /\ [][NextClassify]_vars

\* k is an integer nearest to M * f (f in 1/Unit).
IsNearestInteger(k, M, f) == 2 * Abs(k * Unit - M * f) <= Unit

\* C8: the shuffled index list is a permutation of 0..M-1, every plate has a
\* class, and the number of continental plates is round(M * f).
C8_ClassifyCount ==
    pc = "returned" =>
        LET M == args.NumPlates
            Cont == {p \in 1..M : out.IsPlateContinent[p]}
        IN  /\ Len(out.PlateIndices) = M
            /\ SeqToSet(out.PlateIndices) = 0..M - 1
            /\ Len(out.IsPlateContinent) = M
            /\ IsNearestInteger(Cardinality(Cont), M, args.ContinentalRatio)

\* A shuffle that moved something, with a fractional M * f rounded up.
C8_Witness ==
    /\ pc = "returned"
    /\ args.NumPlates = 3 /\ args.ContinentalRatio = 300
    /\ out.PlateIndices # <<0, 1, 2>>
    /\ Cardinality({p \in 1..3 : out.IsPlateContinent[p]}) = 1

(***************************************************************************)
(* SpecCrust: InitializeCrustData called on sampled points partitioned     *)
(* into plates, the output array holding anything before the call.         *)
(***************************************************************************)
RadiusChoices == {1, 2}

\* PlateToPoints for the assignment a of points 0..n-1 to plates 0..M-1.
ListsOf(a, M) ==
    [p \in 1..M |-> SortedSeq({i \in 0..Len(a) - 1 : a[i + 1] = p - 1})]

\* All partitions of n points into M plate lists (M = 0 only without points).
Partitions(n) ==
    {ListsOf(a, M) : <<M, a>> \in
        UNION {{M} \X [1..n -> 0..M - 1] : M \in (IF n = 0 THEN 0 ELSE 1)..MaxPlates}}

\* A sample left over from an earlier use of the array.
DirtyCrust ==
    [Type |-> "Continental", Thickness |-> 1, Elevation |-> 9 * Unit,
     OceanicAge |-> 55 * Unit, RidgeDirection |-> <<Unit, 0, 0>>,
     OrogenyAge |-> 77 * Unit, OrogenyType |-> "Himalayan",
     FoldDirection |-> <<0, Unit, 0>>]

CrustInputs ==
    {[SamplePoints |-> GeneratePoints(n, R, << >>), PlateToPoints |-> L,
      ContinentalRatio |-> f, AbyssalPlainElevationKm |-> -6 * Unit,
      HighestOceanicRidgeElevationKm |-> -Unit, Seed |-> S] :
        <<n, R, L, f, S>> \in
            UNION {{n} \X RadiusChoices \X Partitions(n) \X {0, 300, 500, 1000}
                       \X (0..MaxSeed) : n \in 0..MaxPts}}

InitCrust ==
    /\ Planet = NoPlanet /\ Settings = NoSettings /\ hist = NoHist /\ tasks = NoTasks
    /\ \E in \in CrustInputs :
         \E old \in {<< >>, [k \in 1..Len(in.SamplePoints) + 1 |-> DirtyCrust]} :
           /\ args = [in |-> in, Before |-> old]
           /\ out = [CrustData |-> old, IsPlateContinent |-> << >>]
    /\ pc = "call"

CallInitializeCrustData ==
    /\ pc = "call"
    /\ out' = [CrustData |-> InitializeCrustData(args.in, out.CrustData),
               IsPlateContinent |->
                   ClassifyPlates(Len(args.in.PlateToPoints),
                                  args.in.ContinentalRatio, args.in.Seed)]
    /\ pc' = "returned"
    /\ UNCHANGED <<Planet, Settings, hist, args, tasks>>

NextCrust == CallInitializeCrustData

SpecCrust == InitCrust /\ [][NextCrust]_vars

\* The points of plate p (1-based p), as 1-based positions in the crust array.
MembersOf(Lists, p) == {Lists[p][k] + 1 : k \in 1..Len(Lists[p])}
Written(Lists) == UNION {MembersOf(Lists, p) : p \in 1..Len(Lists)}

\* C5: N crust entries; every point has the type of its plate's class, with
\* thickness 7.0 for Oceanic and 35.0 for Continental.
C5_TypeAndThickness ==
    pc = "returned" =>
        /\ Len(out.CrustData) = Len(args.in.SamplePoints)
        /\ \A p \in 1..Len(args.in.PlateToPoints) :
             \A i \in MembersOf(args.in.PlateToPoints, p) :
               LET c == out.CrustData[i]
               IN  IF out.IsPlateContinent[p]
                   THEN c.Type = "Continental" /\ c.Thickness = 35 * Unit
                   ELSE c.Type = "Oceanic" /\ c.Thickness = 7 * Unit

C5_Witness ==
    /\ pc = "returned"
    /\ args.Before # << >>
    /\ Len(args.in.SamplePoints) = MaxPts
    /\ \E p, q \in 1..Len(args.in.PlateToPoints) :
         /\ out.IsPlateContinent[p] /\ ~out.IsPlateContinent[q]
         /\ args.in.PlateToPoints[p] # << >> /\ args.in.PlateToPoints[q] # << >>

\* C6: oceanic age in [0, 200]; continental orogeny age in [500, 3000] and
\* elevation within 0.2 of 0.5.
C6_Ranges ==
    pc = "returned" =>
        \A i \in Written(args.in.PlateToPoints) :
            LET c == out.CrustData[i]
            IN  IF c.Type = "Oceanic"
                THEN c.OceanicAge >= 0 /\ c.OceanicAge <= 200 * Unit
                ELSE /\ c.OrogenyAge >= 500 * Unit /\ c.OrogenyAge <= 3000 * Unit
                     /\ Abs(c.Elevation - 500) <= 200

\* An oceanic point a long way from its centroid (age clamped at 200) and a
\* continental point with a drawn elevation and age, in one array.
C6_Witness ==
    /\ pc = "returned"
    /\ \E i, k \in Written(args.in.PlateToPoints) :
         /\ out.CrustData[i].Type = "Oceanic" /\ out.CrustData[i].OceanicAge = 200 * Unit
         /\ out.CrustData[k].Type = "Continental"
         /\ out.CrustData[k].Elevation # 500
         /\ out.CrustData[k].OrogenyAge > 500 * Unit

\* The angular separation, in 1/Unit radians, between the direction of
\* point i and the centroid direction of plate p (1-based i and p).
Separation(in, p, i) ==
    Acos(Clamp(RoundDiv(DotProduct(GetSafeNormal(in.SamplePoints[i]),
                                   PlateCentroid(in.SamplePoints, in.PlateToPoints[p])),
                        Unit),
               -Unit, Unit))

\* d of the claim: the separation divided by pi/4, clamped to [0, 1].
GradientD(in, p, i) == Clamp(RoundDiv(Separation(in, p, i) * Unit, PI \div 4), 0, Unit)

\* C15: for every oceanic point, whatever the radius, the elevation is the
\* interpolation from the ridge elevation to the abyssal elevation at d and
\* the age is d * 200, d being the angular separation from the plate's
\* centroid over pi/4, clamped; at a separation of pi/4 or more the point has
\* the abyssal elevation and age 200, strictly between 0 and pi/4 an
\* elevation strictly between the endpoints.
C15_OceanicGradient ==
    pc = "returned" =>
        \A p \in 1..Len(args.in.PlateToPoints) :
          \A i \in MembersOf(args.in.PlateToPoints, p) :
            LET c   == out.CrustData[i]
                d   == GradientD(args.in, p, i)
                sep == Separation(args.in, p, i)
                zr  == args.in.HighestOceanicRidgeElevationKm
                za  == args.in.AbyssalPlainElevationKm
            IN  c.Type = "Oceanic" =>
                  /\ c.Elevation = Lerp(zr, za, d)
                  /\ c.OceanicAge = d * 200
                  /\ sep >= PI \div 4 => (c.Elevation = za /\ c.OceanicAge = 200 * Unit)
                  /\ (sep > 0 /\ sep < PI \div 4) => (c.Elevation < zr /\ c.Elevation > za)

\* C7: in every sample written, the fields of the opposite type are neutral
\* and the orogeny classification is None, whatever the sample held before.
C7_OppositeNeutral ==
    pc = "returned" =>
        \A i \in Written(args.in.PlateToPoints) :
            LET c == out.CrustData[i]
            IN  /\ c.OrogenyType = "None"
                /\ c.Type = "Continental" =>
                       c.OceanicAge = 0 /\ c.RidgeDirection = ZeroVector
                /\ c.Type = "Oceanic" =>
                       c.OrogenyAge = 0 /\ c.FoldDirection = ZeroVector

\* Dirty samples were overwritten by both kinds of crust.
C7_Witness ==
    /\ pc = "returned"
    /\ args.Before # << >>
    /\ \E i, j \in Written(args.in.PlateToPoints) :
         /\ args.Before[i] = DirtyCrust /\ out.CrustData[i].Type = "Continental"
         /\ args.Before[j] = DirtyCrust /\ out.CrustData[j].Type = "Oceanic"

(***************************************************************************)
(* SpecPar: InitializeCrustData and then DetectPlateBoundaries with their  *)
(* work items as tasks.  With bDoParallel (ParallelFor) any unfinished     *)
(* task takes the next step; without it the for loop runs task 0, then 1,  *)
(* and so on.  A plate task steps once per point of its plate; a point     *)
(* task is one step.  The plate lists are a partition of the points, as    *)
(* AssignPointsToSeeds with at least one seed leaves them.                 *)
(***************************************************************************)
\* PointToPlate for the partition Lists of n points.
PointPlateIdsOf(Lists, n) ==
    [i \in 1..n |-> CHOOSE q \in 0..Len(Lists) - 1 : i \in MembersOf(Lists, q + 1)]

\* Adjacency of a chain of n points: i - 1 and i + 1 where they exist.
ChainAdjacency(n) ==
    [i \in 1..n |-> SortedSeq({j \in {i - 2, i} : j >= 0 /\ j < n})]

ParInputs ==
    {[SamplePoints |-> GeneratePoints(MaxPts, 1, << >>), PlateToPoints |-> L,
      ContinentalRatio |-> 500, AbyssalPlainElevationKm |-> -6 * Unit,
      HighestOceanicRidgeElevationKm |-> -Unit, Seed |-> S] :
        <<L, S>> \in Partitions(MaxPts) \X {0, MaxSeed}}

\* The elements of OutCrustData that iteration k of plate PlateIdx assigns:
\* those that end up the same from two arrays that differ everywhere.
CrustWrites(in, IsPlateContinent, PlateIdx, k, s) ==
    LET n  == Len(in.SamplePoints)
        A  == CrustPointStep(in, IsPlateContinent, PlateIdx, k, s,
                             [j \in 1..n |-> [DefaultCrust EXCEPT !.Thickness = -1]])
        B  == CrustPointStep(in, IsPlateContinent, PlateIdx, k, s,
                             [j \in 1..n |-> [DefaultCrust EXCEPT !.Thickness = -2]])
    IN  {j \in 1..n : A[j] = B[j]}

\* The elements of OutIsBoundaryPoint that WorkPerPoint(PointIdx) assigns.
FlagWrites(PointIdx, PointPlateIds, Neighbors) ==
    LET n == Len(PointPlateIds)
        A == WorkPerPoint(PointIdx, PointPlateIds, Neighbors, [j \in 1..n |-> TRUE])
        B == WorkPerPoint(PointIdx, PointPlateIds, Neighbors, [j \in 1..n |-> FALSE])
    IN  {j \in 1..n : A[j] = B[j]}

\* hist records which task has assigned each crust sample (CrustWriters),
\* advanced each plate's random stream (StreamWriters) and assigned each
\* flag (FlagWriters); tasks are named by their 1-based number.
InitPar ==
    /\ Planet = NoPlanet /\ Settings = NoSettings /\ tasks = NoTasks
    /\ hist = [CrustWriters  |-> [j \in 1..MaxPts |-> {}],
               StreamWriters |-> [q \in 1..MaxPlates |-> {}],
               FlagWriters   |-> [j \in 1..MaxPts |-> {}]]
    /\ \E in \in ParInputs, par \in BOOLEAN :
         \E old \in {<< >>, [k \in 1..MaxPts + 1 |-> DirtyCrust]} :
           /\ args = [in |-> in, Before |-> old,
                      FlagsBefore |-> [k \in 1..Len(old) |-> TRUE],
                      PointPlateIds |-> PointPlateIdsOf(in.PlateToPoints, MaxPts),
                      Neighbors |-> ChainAdjacency(MaxPts),
                      bDoParallel |-> par]
           /\ out = [CrustData |-> old, IsPlateContinent |-> << >>,
                     IsBoundaryPoint |-> [k \in 1..Len(old) |-> TRUE]]
    /\ pc = "crust_call"

\* InitializeCrustData up to the dispatch: SetNum, ClassifyPlates, and one
\* task per plate at its first point with its own LocalRand.
StartCrust ==
    /\ pc = "crust_call"
    /\ out' = [out EXCEPT
                 !.CrustData = SetNum(out.CrustData, Len(args.in.SamplePoints),
                                      DefaultCrust),
                 !.IsPlateContinent =
                     ClassifyPlates(Len(args.in.PlateToPoints),
                                    args.in.ContinentalRatio, args.in.Seed)]
    /\ tasks' = [q \in 1..Len(args.in.PlateToPoints) |->
                    [k |-> 0, s |-> LocalRand(args.in.Seed, q - 1)]]
    /\ pc' = "crust_tasks"
    /\ UNCHANGED <<Planet, Settings, hist, args>>

PlateFinishedEarly(q) == tasks[q].k >= Len(args.in.PlateToPoints[q]) - 1
PlateFinished(q) == tasks[q].k >= Len(args.in.PlateToPoints[q])

\* WorkPerPlate(q - 1) handles its next point.
PlateStep ==
    /\ pc = "crust_tasks"
    /\ \E q \in 1..Len(tasks) :
         /\ ~PlateFinished(q)
         /\ args.bDoParallel \/ \A e \in 1..q - 1 : PlateFinished(e)
         /\ out' = [out EXCEPT !.CrustData =
                        CrustPointStep(args.in, out.IsPlateContinent, q - 1,
                                       tasks[q].k, tasks[q].s, out.CrustData)]
         /\ tasks' = [tasks EXCEPT
                        ![q] = [k |-> tasks[q].k + 1,
                                s |-> RandAfterPoint(out.IsPlateContinent, q - 1,
                                                     tasks[q].s)]]
         /\ hist' = [hist EXCEPT
                       !.CrustWriters =
                           [j \in 1..MaxPts |->
                               IF j \in CrustWrites(args.in, out.IsPlateContinent,
                                                    q - 1, tasks[q].k, tasks[q].s)
                               THEN @[j] \cup {q} ELSE @[j]],
                       !.StreamWriters =
                           [e \in 1..MaxPlates |->
                               IF e <= Len(tasks) /\ tasks'[e].s # tasks[e].s
                               THEN @[e] \cup {q} ELSE @[e]]]
    /\ UNCHANGED <<Planet, Settings, args, pc>>

\* The end of ParallelFor or of the for loop: every plate is done.
JoinCrust ==
    /\ pc = "crust_tasks"
    /\ \A q \in 1..Len(tasks) : PlateFinished(q)
    /\ tasks' = NoTasks
    /\ pc' = "boundary_call"
    /\ UNCHANGED <<Planet, Settings, hist, args, out>>

\* DetectPlateBoundaries up to the dispatch: SetNumZeroed, one task per point.
StartBoundary ==
    /\ pc = "boundary_call"
    /\ out' = [out EXCEPT !.IsBoundaryPoint =
                   SetNumZeroed(out.IsBoundaryPoint, Len(args.PointPlateIds))]
    /\ tasks' = [i \in 1..Len(args.PointPlateIds) |-> [done |-> FALSE]]
    /\ pc' = "boundary_tasks"
    /\ UNCHANGED <<Planet, Settings, hist, args>>

\* WorkPerPoint(i - 1).
PointStep ==
    /\ pc = "boundary_tasks"
    /\ \E i \in 1..Len(tasks) :
         /\ ~tasks[i].done
         /\ args.bDoParallel \/ \A e \in 1..i - 1 : tasks[e].done
         /\ out' = [out EXCEPT !.IsBoundaryPoint =
                        WorkPerPoint(i - 1, args.PointPlateIds, args.Neighbors,
                                     out.IsBoundaryPoint)]
         /\ tasks' = [tasks EXCEPT ![i] = [done |-> TRUE]]
         /\ hist' = [hist EXCEPT
                       !.FlagWriters =
                           [j \in 1..MaxPts |->
                               IF j \in FlagWrites(i - 1, args.PointPlateIds,
                                                   args.Neighbors)
                               THEN @[j] \cup {i} ELSE @[j]]]
    /\ UNCHANGED <<Planet, Settings, args, pc>>

JoinBoundary ==
    /\ pc = "boundary_tasks"
    /\ \A i \in 1..Len(tasks) : tasks[i].done
    /\ tasks' = NoTasks
    /\ pc' = "done"
    /\ UNCHANGED <<Planet, Settings, hist, args, out>>

NextPar ==
    StartCrust \/ PlateStep \/ JoinCrust \/ StartBoundary \/ PointStep \/ JoinBoundary

SpecPar == InitPar /\ [][NextPar]_vars

\* C9: for plate lists that partition the points, whatever the order and
\* interleaving of the plate tasks and of the point tasks, and with or
\* without bDoParallel, the crust array is the one the loop over plates
\* 0..M-1 produces and the flags are those of the loop over points 0..N-1.
C9_ParallelEqualsSequential ==
    /\ pc \in {"boundary_call", "boundary_tasks", "done"} =>
           out.CrustData = InitializeCrustData(args.in, args.Before)
    /\ pc = "done" =>
           out.IsBoundaryPoint =
               DetectPlateBoundaries(args.PointPlateIds, args.Neighbors,
                                     args.FlagsBefore)

\* A run under ParallelFor: plate tasks of both classes have filled the crust
\* array, and the task of the last point has run before that of the first.
C9_Witness ==
    /\ pc = "boundary_tasks" /\ args.bDoParallel
    /\ Len(args.in.PlateToPoints) >= 2
    /\ args.in.PlateToPoints[1] # << >>
    /\ \E q \in 2..Len(args.in.PlateToPoints) :
         /\ args.in.PlateToPoints[q] # << >>
         /\ out.IsPlateContinent[q] # out.IsPlateContinent[1]
    /\ tasks[Len(tasks)].done /\ ~tasks[1].done
    /\ out.IsBoundaryPoint[Len(tasks)]

\* C22: with plate lists that partition the points, in every interleaving
\* each crust sample has been assigned by at most one plate task, the task of
\* the plate that owns the point; each random stream has been advanced only
\* by its own task; each flag has been assigned by at most one point task,
\* the task of that point; and the sample a plate task assigns next does not
\* depend on what the samples of other points hold.
C22_RaceFree ==
    pc # "crust_call" =>
        /\ \A j \in 1..MaxPts :
               /\ Cardinality(hist.CrustWriters[j]) <= 1
               /\ hist.CrustWriters[j] \subseteq {args.PointPlateIds[j] + 1}
               /\ Cardinality(hist.FlagWriters[j]) <= 1
               /\ hist.FlagWriters[j] \subseteq {j}
        /\ \A q \in 1..MaxPlates : hist.StreamWriters[q] \subseteq {q}
        /\ pc = "crust_tasks" =>
               \A q \in 1..Len(tasks) :
                   ~PlateFinished(q) =>
                       LET At == CrustIndex(args.in.PlateToPoints[q], tasks[q].k) + 1
                           Others == [j \in 1..Len(out.CrustData) |->
                                         IF j = At THEN out.CrustData[j]
                                         ELSE DirtyCrust]
                       IN  CrustPointStep(args.in, out.IsPlateContinent, q - 1,
                                          tasks[q].k, tasks[q].s, out.CrustData)[At]
                             = CrustPointStep(args.in, out.IsPlateContinent, q - 1,
                                              tasks[q].k, tasks[q].s, Others)[At]

\* A run under ParallelFor that has finished both stages: two plate tasks
\* have each assigned a sample, a continental plate has advanced its stream,
\* and every flag has been assigned by the task of its point.
C22_Witness ==
    /\ pc = "done" /\ args.bDoParallel
    /\ \E j, l \in 1..MaxPts :
           hist.CrustWriters[j] = {1} /\ hist.CrustWriters[l] = {2}
    /\ \E q \in 1..MaxPlates : hist.StreamWriters[q] = {q}
    /\ \A j \in 1..MaxPts : hist.FlagWriters[j] = {j}

(***************************************************************************)
(* Spec: a planet component whose properties are edited and which is       *)
(* rebuilt, in any order.                                                  *)
(***************************************************************************)
Choices(f) ==
    CASE f = "NumSamplePoints"        -> {0, MaxPts}
      [] f = "NumPlates"              -> {0, MaxPlates}
      [] f = "PlanetRadiusKm"         -> RadiusChoices
      [] f = "ContinentalRatio"       -> {0, 500}
      [] f = "MaxPlateSpeedMmPerYear" -> {50, 100}

InitialSeedChoices == {0, MaxSeed}

\* The configuration a call of RebuildPlanet runs under.
Configuration == [Config |-> Config(Planet), Settings |-> Settings]

\* hist records, for the properties, what the last step was (lastCall),
\* whether a call of RebuildPlanet has returned (called), the configuration
\* of the last call that returned (last), how the configuration of that call
\* compared to the one before it (rel), and whether that call went past the
\* early return (ran).
Init ==
    /\ \E n \in Choices("NumSamplePoints"), m \in Choices("NumPlates"),
          r \in Choices("PlanetRadiusKm"), f \in Choices("ContinentalRatio"),
          v \in Choices("MaxPlateSpeedMmPerYear") :
         Planet = NewComponent([NumSamplePoints |-> n, NumPlates |-> m,
                                PlanetRadiusKm |-> r, ContinentalRatio |-> f,
                                MaxPlateSpeedMmPerYear |-> v])
    /\ \E seed \in InitialSeedChoices :
         Settings = [InitialSeed |-> seed, AbyssalPlainElevationKm |-> -6 * Unit,
                     HighestOceanicRidgeElevationKm |-> -Unit]
    /\ hist = [lastCall |-> "none", called |-> FALSE, rel |-> "first",
               ran |-> FALSE, last |-> [none |-> TRUE]]
    /\ args = NoArgs /\ out = NoOut /\ tasks = NoTasks
    /\ pc = "idle"

\* A configuration property of the component is set to another value.
EditComponent ==
    /\ pc = "idle"
    /\ \E f \in ConfigFields : \E v \in Choices(f) :
         /\ v # Planet[f]
         /\ Planet' = [Planet EXCEPT ![f] = v]
    /\ hist' = [hist EXCEPT !.lastCall = "edit"]
    /\ UNCHANGED <<Settings, args, out, tasks, pc>>

\* The project-wide seed is set to another value.
EditSettings ==
    /\ pc = "idle"
    /\ \E v \in InitialSeedChoices :
         /\ v # Settings.InitialSeed
         /\ Settings' = [Settings EXCEPT !.InitialSeed = v]
    /\ hist' = [hist EXCEPT !.lastCall = "edit"]
    /\ UNCHANGED <<Planet, args, out, tasks, pc>>

RebuildPlanet ==
    /\ pc = "idle"
    /\ LET CurrentHash == ComputeSettingsHash(Planet)
           r == RebuildPlanetOp(Planet, Settings)
       IN  /\ Planet' = r.Planet
           /\ pc' = IF r.crashed THEN "crashed" ELSE "idle"
           /\ hist' = IF r.crashed THEN [hist EXCEPT !.lastCall = "crashed"]
                      ELSE [lastCall |-> "rebuild",
                            called   |-> TRUE,
                            rel      |-> IF ~hist.called THEN "first"
                                         ELSE IF Configuration = hist.last
                                              THEN "same" ELSE "changed",
                            ran      |-> ~SkipRebuild(CurrentHash, Planet),
                            last     |-> Configuration]
    /\ UNCHANGED <<Settings, args, out, tasks>>

Next == EditComponent \/ EditSettings \/ RebuildPlanet

Spec == Init /\ [][Next]_vars

\* What a first rebuild of a newly constructed component produces under the
\* configuration the component and the project settings now hold.
FreshRebuild == FullRebuild(NewComponent(Config(Planet)), Settings).Planet

\* The points, plate assignment, plates and crust samples of the component.
Outputs(P) ==
    [SamplePoints |-> P.SamplePoints, PointPlateIds |-> P.PointPlateIds,
     Plates |-> P.Plates, CrustData |-> P.CrustData]

\* C3: when the configuration of a call of RebuildPlanet differs from that of
\* the call before it, the points, plate assignment, plates and crust
\* samples after the call are those of a fresh rebuild under the new
\* configuration.
C3_ChangeForcesRebuild ==
    (hist.lastCall = "rebuild" /\ hist.rel = "changed")
        => Outputs(Planet) = Outputs(FreshRebuild)

\* C4: a call of RebuildPlanet under the configuration of the last call that
\* returned, with a non-empty sample-point array, takes the early return and
\* leaves the points, per-point plate ids, plates, crust samples, cached hash
\* and generated counters as they were.
C4_RebuildIdempotent ==
    [][(/\ pc = "idle" /\ hist'.lastCall = "rebuild"
        /\ hist.called /\ Configuration = hist.last
        /\ Planet.SamplePoints # << >>)
         => (GeneratedData(Planet') = GeneratedData(Planet) /\ ~hist'.ran)]_vars

C4_Witness ==
    /\ hist.lastCall = "rebuild" /\ hist.rel = "same" /\ ~hist.ran
    /\ Planet.SamplePoints # << >> /\ Planet.CrustData # << >>
    /\ Planet.CachedSettingsHash = ComputeSettingsHash(Planet)

\* C10: after any call of RebuildPlanet the points, plate assignment, crust
\* samples and plate dynamics are those of a first run of a newly constructed
\* component under the same configuration: nothing depends on what an
\* earlier run left behind.
C10_PipelineDeterministic ==
    hist.lastCall = "rebuild" => Outputs(Planet) = Outputs(FreshRebuild)

\* C19: after a call of RebuildPlanet that went past the early return and
\* returned, with N = NumSamplePoints > 0 and M = NumPlates > 0, the
\* component holds N sample points, N plate ids, N crust samples and M
\* plates; plate p has PlateId p; point i is listed by plate p, once, exactly
\* when PointPlateIds[i] = p; NumGeneratedPoints = N, NumPlatesGenerated = M.
C19_OutputsConsistent ==
    (/\ hist.lastCall = "rebuild" /\ hist.ran
     /\ Planet.NumSamplePoints > 0 /\ Planet.NumPlates > 0)
        => LET N == Planet.NumSamplePoints
               M == Planet.NumPlates
           IN  /\ Len(Planet.SamplePoints) = N
               /\ Len(Planet.PointPlateIds) = N
               /\ Len(Planet.CrustData) = N
               /\ Len(Planet.Plates) = M
               /\ \A p \in 0..M - 1 :
                      LET Idx == Planet.Plates[p + 1].PointIndices
                      IN  /\ Planet.Plates[p + 1].PlateId = p
                          /\ \A i \in 0..N - 1 :
                                 (\E k \in 1..Len(Idx) : Idx[k] = i)
                                     <=> Planet.PointPlateIds[i + 1] = p
                          /\ \A k, l \in 1..Len(Idx) : Idx[k] = Idx[l] => k = l
               /\ Planet.NumGeneratedPoints = N
               /\ Planet.NumPlatesGenerated = M

\* A rebuild that ran after an edit of the configuration, on a component
\* that held the data of an earlier rebuild, with two plates of which one
\* holds a point.
C19_Witness ==
    /\ hist.lastCall = "rebuild" /\ hist.ran /\ hist.rel = "changed"
    /\ Planet.NumSamplePoints = MaxPts /\ Planet.NumPlates = MaxPlates
    /\ Len(Planet.Plates) = MaxPlates /\ Len(Planet.CrustData) = MaxPts
    /\ \E p, q \in 1..MaxPlates :
           /\ p # q
           /\ Planet.Plates[p].PointIndices # << >>
           /\ Planet.Plates[q].PointIndices # << >>

(***************************************************************************)
(* ptp_cgal_triangulate and FCGALAdjacencyProvider::Build.                 *)
(*                                                                         *)
(* The convex hull itself is computed by the CGAL library; the model takes *)
(* its result as an input: the faces of the hull in iteration order, each  *)
(* a triple of input-point indices as the key lookup finds them, or -1 for *)
(* a hull vertex whose key is in no input point.                           *)
(***************************************************************************)
MinHullPts == 4

\* index.find(make_key(p)) == index.end() for some vertex of the face.
KeyMissing(face) == \E k \in 1..3 : face[k] < 0

\* The loop over hull.faces(): the triangles written so far are tris; a
\* missing key returns 0 and leaves *tri_written alone, a full buffer breaks.
RECURSIVE FacesLoop(_, _, _, _)
FacesLoop(faces, f, tris, tri_cap) ==
    IF f > Len(faces) THEN [ok |-> 1, written |-> Len(tris), tris |-> tris]
    ELSE IF KeyMissing(faces[f]) THEN [ok |-> 0, written |-> 0, tris |-> tris]
    ELSE IF Len(tris) >= tri_cap THEN [ok |-> 1, written |-> Len(tris), tris |-> tris]
    ELSE FacesLoop(faces, f + 1, Append(tris, faces[f]), tri_cap)

\* written is the caller's "int written = 0", left alone on every return 0.
ptp_cgal_triangulate(N, faces, tri_cap) ==
    IF N < MinHullPts THEN [ok |-> 0, written |-> 0, tris |-> << >>]
    ELSE IF Len(faces) = 0 THEN [ok |-> 0, written |-> 0, tris |-> << >>]
    ELSE FacesLoop(faces, 1, << >>, tri_cap)

EmptyAdj == [Neighbors |-> << >>, Triangles |-> << >>]

\* "OutError = ...; return false".
BuildFailsCleared(OutAdj, Error) == [ok |-> FALSE, Adj |-> EmptyAdj, Error |-> Error]
BuildFails(OutAdj, Error) == [ok |-> FALSE, Adj |-> OutAdj, Error |-> Error]

\* Nbs[i] after the loop over the written triangles.
Nbs(tris, i) ==
    {v \in UNION {{tris[t][k] : k \in 1..3} : t \in 1..Len(tris)} :
        \E t \in 1..Len(tris) : \E k, l \in 1..3 :
            k # l /\ tris[t][k] = i /\ tris[t][l] = v}

\* Nbs[i].Remove(i)
NbsWithSelf(tris, i) == Nbs(tris, i)
NbsWithoutSelf(tris, i) == Nbs(tris, i) \ {i}

\* The neighbor lists: the elements of each set, listed once each (the order
\* of a TSet's iteration is not specified; the model lists them ascending).
FillNeighbors(N, tris) == [i \in 1..N |-> SortedSeq(NbsWithoutSelf(tris, i - 1))]

\* Build with the library compiled in (WITH_PTP_CGAL_LIB).
BuildWithCGAL(InPoints, OutAdj, faces) ==
    IF Len(InPoints) < MinHullPts
    THEN BuildFails(OutAdj, "Insufficient points for triangulation")
    ELSE LET MaxTris == Len(InPoints) * 2
             t == ptp_cgal_triangulate(Len(InPoints), faces, MaxTris)
         IN  IF t.ok = 0 \/ t.written <= 0
             THEN BuildFails(OutAdj, "ptp_cgal_triangulate failed")
             ELSE [ok |-> TRUE,
                   Adj |-> [Neighbors |-> FillNeighbors(Len(InPoints), t.tris),
                            Triangles |-> t.tris],
                   Error |-> ""]

\* Build of the stub compiled without the library.
BuildStub(InPoints, OutAdj) ==
    BuildFails(OutAdj, "CGAL not available (WITH_CGAL=0). Configure vcpkg and rebuild.")

\* OutError is written only on failure: on success it keeps what it held.
Build(InPoints, OutAdj, OutError, faces, bWithCGAL) ==
    LET r == IF bWithCGAL THEN BuildWithCGAL(InPoints, OutAdj, faces)
                          ELSE BuildStub(InPoints, OutAdj)
    IN  IF r.ok THEN [r EXCEPT !.Error = OutError] ELSE r

(***************************************************************************)
(* SpecAdjacency: Build called on a point array, with any hull the library *)
(* may hand back, with and without the library compiled in.                *)
(***************************************************************************)
MaxFaces == 2

\* Faces over N points: consecutive triples, a face two of whose vertices
\* share a key (and so an index), and a face with a vertex of unknown key.
FaceChoices(N) ==
    {<<i, (i + 1) % N, (i + 2) % N>> : i \in 0..N - 1} \cup {<<0, 0, 1>>, <<0, 1, -1>>}

HullChoices(N) == IF N < MinHullPts THEN {<< >>} ELSE SeqUpTo(FaceChoices(N), MaxFaces)

OldAdj == [Neighbors |-> << <<1>>, <<0>> >>, Triangles |-> << <<0, 1, 2>> >>]

InitAdjacency ==
    /\ Planet = NoPlanet /\ Settings = NoSettings /\ hist = NoHist /\ tasks = NoTasks
    /\ \E N \in 0..MaxPts + 1 :
         \E faces \in HullChoices(N), with \in BOOLEAN,
            adj \in {EmptyAdj, OldAdj}, err \in {"", "stale"} :
           /\ args = [InPoints |-> GeneratePoints(N, 1, << >>), faces |-> faces,
                      bWithCGAL |-> with, OutAdj |-> adj, OutError |-> err]
           /\ out = [ok |-> FALSE, Adj |-> adj, Error |-> err]
    /\ pc = "call"

CallBuild ==
    /\ pc = "call"
    /\ out' = Build(args.InPoints, out.Adj, out.Error, args.faces, args.bWithCGAL)
    /\ pc' = "returned"
    /\ UNCHANGED <<Planet, Settings, hist, args, tasks>>

NextAdjacency == CallBuild

SpecAdjacency == InitAdjacency /\ [][NextAdjacency]_vars

\* C12: whenever Build returns failure, the error description is not empty
\* and the caller's neighbor lists and triangles are those of before the
\* call; with fewer than 4 points, without the library, or with a hull that
\* has no face or a vertex of unknown key, Build does return failure.
C12_BuildFailure ==
    pc = "returned" =>
        /\ ~out.ok => (out.Error # "" /\ out.Adj = args.OutAdj)
        /\ (\/ Len(args.InPoints) < 4
            \/ ~args.bWithCGAL
            \/ args.faces = << >>
            \/ \E f \in 1..Len(args.faces) : KeyMissing(args.faces[f])) => ~out.ok

\* The library wrote a triangle into the local buffer and then failed on a
\* key; the caller's adjacency held data and its error string was empty.
C12_Witness ==
    /\ pc = "returned" /\ ~out.ok
    /\ args.bWithCGAL /\ Len(args.InPoints) >= 4
    /\ Len(args.faces) = 2 /\ ~KeyMissing(args.faces[1]) /\ KeyMissing(args.faces[2])
    /\ args.OutAdj = OldAdj /\ args.OutError = ""

\* The indices listed in the neighbor list of point i (0-based i).
NeighborSet(L, i) == {L[i + 1][k] : k \in 1..Len(L[i + 1])}

\* C13: when Build succeeds on N points there are N neighbor lists, every
\* triangle index and neighbor index is in 0..N-1, no point is its own
\* neighbor, no neighbor is listed twice, and j is in i's list iff i is in
\* j's list.
C13_BuildSuccess ==
    (pc = "returned" /\ out.ok) =>
        LET N  == Len(args.InPoints)
            Nb == out.Adj.Neighbors
        IN  /\ Len(Nb) = N
            /\ \A t \in 1..Len(out.Adj.Triangles) :
                   \A k \in 1..3 : out.Adj.Triangles[t][k] \in 0..N - 1
            /\ \A i \in 0..N - 1 :
                   /\ NeighborSet(Nb, i) \subseteq 0..N - 1
                   /\ i \notin NeighborSet(Nb, i)
                   /\ Cardinality(NeighborSet(Nb, i)) = Len(Nb[i + 1])
                   /\ \A j \in 0..N - 1 : j \in NeighborSet(Nb, i) <=> i \in NeighborSet(Nb, j)

\* A successful build from two faces, one of them with a repeated index, over
\* an adjacency object that held older data.
C13_Witness ==
    /\ pc = "returned" /\ out.ok /\ args.OutAdj = OldAdj
    /\ Len(out.Adj.Triangles) = 2
    /\ \E t \in 1..2 : out.Adj.Triangles[t][1] = out.Adj.Triangles[t][2]
    /\ \E i \in 0..Len(args.InPoints) - 1 : Len(out.Adj.Neighbors[i + 1]) >= 2

(***************************************************************************)
(* APTPPlanetActor::BuildAdjacency.                                        *)
(***************************************************************************)
\* "if (!Provider->Build(...)) return;"
BuildFailureIgnored(r) == FALSE
AdjacencyBuildFailed(r) == ~r.ok

\* Planet->Neighbors, Triangles and NumTriangles taken from the built Adj.
StoreAdjacency(P, Adj) ==
    [P EXCEPT !.Neighbors = Adj.Neighbors, !.Triangles = Adj.Triangles,
              !.NumTriangles = Len(Adj.Triangles)]

\* "Task 1.14: Detect plate boundaries", run when there are plate ids.
DetectOnPlanet(P) ==
    IF Len(P.PointPlateIds) > 0
    THEN [P EXCEPT !.IsBoundaryPoint =
              DetectPlateBoundaries(P.PointPlateIds, P.Neighbors, P.IsBoundaryPoint)]
    ELSE P

\* BuildAdjacency on component P; faces is the hull the library computes for
\* the sample points.  The result holds the component after the call, how
\* often Build was called, whether boundary detection ran, and Build's result.
BuildAdjacencyOp(P, faces, bWithCGAL) ==
    LET r == Build(P.SamplePoints, EmptyAdj, "", faces, bWithCGAL)
    IN  IF AdjacencyBuildFailed(r)
        THEN [Planet |-> P, builds |-> 1, detected |-> FALSE,
              ok |-> r.ok, Error |-> r.Error]
        ELSE [Planet |-> DetectOnPlanet(StoreAdjacency(P, r.Adj)), builds |-> 1,
              detected |-> Len(P.PointPlateIds) > 0, ok |-> r.ok, Error |-> r.Error]

\* The neighbor lists, triangles, triangle count and boundary flags.
AdjacencyData(P) ==
    [Neighbors |-> P.Neighbors, Triangles |-> P.Triangles,
     NumTriangles |-> P.NumTriangles, IsBoundaryPoint |-> P.IsBoundaryPoint]

(***************************************************************************)
(* SpecActor: a planet actor whose component is edited and rebuilt and     *)
(* whose adjacency is built, in any order.  args holds how the provider    *)
(* was compiled; out holds what the last BuildAdjacency did.               *)
(***************************************************************************)
ActorChoices(f) ==
    CASE f = "NumSamplePoints" -> {MaxPts, MaxPts + 1}
      [] f = "NumPlates"       -> {1, 2}

ActorFields == {"NumSamplePoints", "NumPlates"}

\* The hulls the library hands back in this specification: none, one face,
\* or two faces that share an edge.
ActorHulls(N) ==
    IF N < MinHullPts THEN {<< >>}
    ELSE {<< >>, << <<0, 1, 2>>, <<1, 2, 3>> >>} \cup {<<f>> : f \in FaceChoices(N)}

InitActor ==
    /\ \E n \in ActorChoices("NumSamplePoints"), m \in ActorChoices("NumPlates") :
         Planet = NewComponent([NumSamplePoints |-> n, NumPlates |-> m,
                                PlanetRadiusKm |-> 1, ContinentalRatio |-> 500,
                                MaxPlateSpeedMmPerYear |-> 100])
    /\ Settings = [InitialSeed |-> MaxSeed, AbyssalPlainElevationKm |-> -6 * Unit,
                   HighestOceanicRidgeElevationKm |-> -Unit]
    /\ hist = [lastCall |-> "none", called |-> FALSE, rel |-> "first",
               ran |-> FALSE, last |-> [none |-> TRUE]]
    /\ \E with \in BOOLEAN : args = [bWithCGAL |-> with]
    /\ out = [builds |-> 0, detected |-> FALSE, ok |-> FALSE, Error |-> ""]
    /\ tasks = NoTasks
    /\ pc = "idle"

ActorEdit ==
    /\ pc = "idle"
    /\ \E f \in ActorFields : \E v \in ActorChoices(f) :
         /\ v # Planet[f]
         /\ Planet' = [Planet EXCEPT ![f] = v]
    /\ hist' = [hist EXCEPT !.lastCall = "edit"]
    /\ UNCHANGED <<Settings, args, out, tasks, pc>>

BuildAdjacency ==
    /\ pc = "idle"
    /\ \E faces \in ActorHulls(Len(Planet.SamplePoints)) :
         LET r == BuildAdjacencyOp(Planet, faces, args.bWithCGAL)
         IN  /\ Planet' = r.Planet
             /\ out' = [builds |-> r.builds, detected |-> r.detected,
                        ok |-> r.ok, Error |-> r.Error]
    /\ hist' = [hist EXCEPT !.lastCall = "adjacency"]
    /\ UNCHANGED <<Settings, args, tasks, pc>>

NextActor == ActorEdit \/ RebuildPlanet \/ BuildAdjacency

SpecActor == InitActor /\ [][NextActor]_vars

\* C14: after any sequence of RebuildPlanet and BuildAdjacency calls the
\* boundary-flag array has one entry per sample point, and each flag is the
\* boundary predicate on the current plate ids and neighbor lists.
C14_FlagsNeverStale ==
    (pc = "idle" /\ hist.lastCall \in {"rebuild", "adjacency"}) =>
        /\ Len(Planet.IsBoundaryPoint) = Len(Planet.SamplePoints)
        /\ \A i \in 0..Len(Planet.SamplePoints) - 1 :
               Planet.IsBoundaryPoint[i + 1]
                   <=> HasForeignNeighbor(Planet.PointPlateIds, Planet.Neighbors, i)

\* C20: a BuildAdjacency whose Build fails leaves the neighbor lists,
\* triangles, triangle count and boundary flags as they were, does not run
\* boundary detection, calls Build once and returns.
C20_FailedBuildKeepsData ==
    [][(hist'.lastCall = "adjacency" /\ ~out'.ok)
         => /\ AdjacencyData(Planet') = AdjacencyData(Planet)
            /\ ~out'.detected /\ out'.builds = 1 /\ out'.Error # ""
            /\ pc' = "idle"]_vars

\* A failed BuildAdjacency on a planet that holds the neighbor lists,
\* triangles and flags of an earlier successful one.
C20_Witness ==
    /\ hist.lastCall = "adjacency" /\ ~out.ok /\ pc = "idle"
    /\ Planet.NumTriangles > 0 /\ Planet.Neighbors # << >>
    /\ \E i \in 1..Len(Planet.IsBoundaryPoint) : Planet.IsBoundaryPoint[i]

(***************************************************************************)
(* SpecDynamics: InitializePlateDynamics called on an array of plates.     *)
(***************************************************************************)
SpeedChoices == {0, 50, 100}

\* Plates as RebuildPlanet builds them before the call.
PlatesBefore(M) == [k \in 1..M |-> NewPlate(k - 1, [q \in 1..M |-> << >>], << >>)]

InitDynamics ==
    /\ Planet = NoPlanet /\ Settings = NoSettings /\ hist = NoHist /\ tasks = NoTasks
    /\ \E M \in 0..MaxPlates, R \in RadiusChoices, v \in SpeedChoices, S \in 0..MaxSeed :
         /\ args = [NumPlates |-> M, PlanetRadiusKm |-> R,
                    MaxPlateSpeedMmPerYear |-> v, Seed |-> S,
                    Points |-> GeneratePoints(MaxPts, R, << >>)]
         /\ out = [Plates |-> PlatesBefore(M)]
    /\ pc = "call"

CallInitializePlateDynamics ==
    /\ pc = "call"
    /\ out' = [Plates |-> InitializePlateDynamics(
                              args.NumPlates, args.PlanetRadiusKm,
                              args.MaxPlateSpeedMmPerYear, args.Seed, out.Plates)]
    /\ pc' = "returned"
    /\ UNCHANGED <<Planet, Settings, hist, args, tasks>>

NextDynamics == CallInitializePlateDynamics

SpecDynamics == InitDynamics /\ [][NextDynamics]_vars

\* |cross(axis * omega, p)|^2 in (100 / Unit km per My)^2.
SurfaceSpeedSq(Plate, p) ==
    LET w == <<RoundDiv(Plate.RotationAxis[1] * Plate.AngularVelocity, Unit),
               RoundDiv(Plate.RotationAxis[2] * Plate.AngularVelocity, Unit),
               RoundDiv(Plate.RotationAxis[3] * Plate.AngularVelocity, Unit)>>
        c == CrossProduct(w, p)
        t == <<c[1] \div 100, c[2] \div 100, c[3] \div 100>>
    IN  DotProduct(t, t)

\* C16: after the call every plate has |omega| <= v_max / R and a rotation
\* axis of unit length, and every point at distance R from the centre moves
\* at no more than v_max (lengths and speeds to within 1%).
C16_SpeedBound ==
    pc = "returned" =>
        \A k \in 1..Len(out.Plates) :
            LET Plate == out.Plates[k]
                vmax  == args.MaxPlateSpeedMmPerYear
            IN  /\ Abs(Plate.AngularVelocity) * args.PlanetRadiusKm <= vmax * Unit
                /\ Abs(DotProduct(Plate.RotationAxis, Plate.RotationAxis) - Unit * Unit)
                       * 100 <= Unit * Unit
                /\ \A i \in 1..Len(args.Points) :
                       SurfaceSpeedSq(Plate, args.Points[i]) * 100
                           <= (vmax * (Unit \div 100)) * (vmax * (Unit \div 100)) * 102

\* A call on a planet of radius 2 after which some plate turns at more than
\* half of the largest angular velocity, about an axis other than the default.
C16_Witness ==
    /\ pc = "returned" /\ args.PlanetRadiusKm = 2 /\ args.MaxPlateSpeedMmPerYear = 100
    /\ \E k \in 1..Len(out.Plates) :
         /\ Abs(out.Plates[k].AngularVelocity) * 4 > 100 * Unit
         /\ out.Plates[k].RotationAxis # UpVector

(***************************************************************************)
(* SpecSample: GeneratePoints called with any count, on an output array    *)
(* that holds anything.                                                    *)
(***************************************************************************)
InitSample ==
    /\ Planet = NoPlanet /\ Settings = NoSettings /\ hist = NoHist /\ tasks = NoTasks
    /\ \E N \in -2..MaxPts, R \in RadiusChoices, old \in SeqUpTo(PointChoices, 2) :
         /\ args = [N |-> N, RadiusKm |-> R, Before |-> old]
         /\ out = [Points |-> old]
    /\ pc = "call"

CallGeneratePoints ==
    /\ pc = "call"
    /\ out' = [Points |-> GeneratePoints(args.N, args.RadiusKm, out.Points)]
    /\ pc' = "returned"
    /\ UNCHANGED <<Planet, Settings, hist, args, tasks>>

NextSample == CallGeneratePoints

SpecSample == InitSample /\ [][NextSample]_vars

\* C17: the call returns with exactly N points in the array when N > 0 and
\* with an empty array when N <= 0; the points are those of a call on an
\* empty array, so nothing of the old content is left.
C17_PointCount ==
    pc = "returned" =>
        /\ Len(out.Points) = (IF args.N > 0 THEN args.N ELSE 0)
        /\ out.Points = GeneratePoints(args.N, args.RadiusKm, << >>)
        /\ \A k \in 1..Len(out.Points) :
               out.Points[k] = FibonacciPoint(k - 1, args.N, args.RadiusKm)

\* A call with N > 0 and one with N < 0, each on an array that held two points.
C17_Witness ==
    /\ pc = "returned" /\ Len(args.Before) = 2
    /\ \/ args.N = MaxPts /\ Len(out.Points) = MaxPts /\ out.Points[1] # args.Before[1]
       \/ args.N < 0 /\ out.Points = << >>

(***************************************************************************)
(* SpecBins: the vertical distribution of the generated points, as         *)
(* FFibonacciUniformityBinsTest measures it.                               *)
(*                                                                         *)
(* Only the y coordinate matters here, so it is kept exact: point i of N   *)
(* has y = VerticalNum(i, N) / N on the unit sphere.  The stripe index is  *)
(* floor(((y + 1) * 0.5) * K); where that product is a whole number the    *)
(* float arithmetic may land on either side of it, and Rounding says which *)
(* side ("exact" or "below").  Every other point is further from a stripe  *)
(* border than float precision can move it for the sizes used here.        *)
(***************************************************************************)
MinSamples  == 20000
TestSamples == 50000
NumBins     == 20
MaxSizes    == 12       \* sample sizes MinSamples, MinSamples + 5, ...

\* N * y for y = 1 - 2t, t = (i + 0.5) / N.
VerticalNumHalfRange(i, N) == N - i
VerticalNum(i, N) == N - (2 * i + 1)

\* The test's Bin for point i: P.Y = y * Radius, Nrm = P.GetSafeNormal().
BinOfPoint(i, N, RadiusKm, K, Rounding) ==
    LET PY  == VerticalNum(i, N) * RadiusKm            \* N * P.Y
        NrY == PY \div RadiusKm                         \* N * Nrm.Y
        Num == (NrY + N) * K                            \* 2N * ((y + 1) * 0.5) * K
        Flr == Num \div (2 * N)
        Bin == IF Num % (2 * N) = 0 /\ Rounding = "below" THEN Flr - 1 ELSE Flr
    IN  Clamp(Bin, 0, K - 1)

\* Bins after the loop over the points.
CountBins(N, RadiusKm, K, Rounding) ==
    LET BinSeq == [k \in 1..N |-> BinOfPoint(k - 1, N, RadiusKm, K, Rounding)]
    IN  [b \in 0..K - 1 |-> Cardinality({k \in 1..N : BinSeq[k] = b})]

SampleSizes == {MinSamples + 5 * k : k \in 0..MaxSizes} \cup {TestSamples}

InitBins ==
    /\ Planet = NoPlanet /\ Settings = NoSettings /\ hist = NoHist /\ tasks = NoTasks
    /\ \E N \in SampleSizes, R \in RadiusChoices, rnd \in {"exact", "below"} :
         args = [N |-> N, RadiusKm |-> R, K |-> NumBins, Rounding |-> rnd]
    /\ out = [Bins |-> << >>]
    /\ pc = "call"

CallCountBins ==
    /\ pc = "call"
    /\ out' = [Bins |-> CountBins(args.N, args.RadiusKm, args.K, args.Rounding)]
    /\ pc' = "returned"
    /\ UNCHANGED <<Planet, Settings, hist, args, tasks>>

NextBins == CallCountBins

SpecBins == InitBins /\ [][NextBins]_vars

\* C21: for N >= 20000 points and K = 20 equal stripes of the normalized
\* vertical coordinate over [-1, 1], every stripe holds a number of points
\* within 20% of N / K:  |count - N/K| <= 0.2 * N/K.
C21_VerticalUniformity ==
    pc = "returned" =>
        \A b \in 0..args.K - 1 :
            5 * Abs(out.Bins[b] * args.K - args.N) <= args.N

\* A size with points exactly on a stripe border: the rounding moved such a
\* point to the stripe below, and every stripe still holds points.
C21_Witness ==
    /\ pc = "returned" /\ args.Rounding = "below" /\ args.N >= MinSamples
    /\ out.Bins # CountBins(args.N, args.RadiusKm, args.K, "exact")
    /\ \A b \in 0..args.K - 1 : out.Bins[b] > 0

(***************************************************************************)
(* SpecStages: one call of RebuildPlanet with its crust stage as tasks.    *)
(*                                                                         *)
(* The call runs on the game thread: sampling, seeding, assignment and the *)
(* plate structs (BeginRebuild), InitializeCrustData (StartCrust, the      *)
(* plate tasks of PlateStep, and the return from ParallelFor or from the   *)
(* for loop, JoinCrustStage), InitializePlateDynamics (DynamicsStage) and  *)
(* the stores on the component (StoreOutputs).  args holds the locals of   *)
(* the call.  A task that can run is eventually run (weak fairness).       *)
(***************************************************************************)
StageChoices(f) ==
    CASE f = "NumSamplePoints"        -> {MaxPts}
      [] f = "NumPlates"              -> 1..MaxPlates
      [] f = "PlanetRadiusKm"         -> RadiusChoices
      [] f = "ContinentalRatio"       -> {0, 500}
      [] f = "MaxPlateSpeedMmPerYear" -> {50, 100}

\* Oceanic elevation endpoints set on the component: those of the
\* constructor, or a narrower range set in the Details panel.
ElevationChoices ==
    {[HighestOceanicRidgeElevationKm |-> -Unit, AbyssalPlainElevationKm |-> -6 * Unit],
     [HighestOceanicRidgeElevationKm |-> -2 * Unit, AbyssalPlainElevationKm |-> -4 * Unit]}

InitStages ==
    /\ \E n \in StageChoices("NumSamplePoints"), m \in StageChoices("NumPlates"),
          r \in StageChoices("PlanetRadiusKm"), f \in StageChoices("ContinentalRatio"),
          v \in StageChoices("MaxPlateSpeedMmPerYear"), e \in ElevationChoices :
         Planet = [NewComponent([NumSamplePoints |-> n, NumPlates |-> m,
                                 PlanetRadiusKm |-> r, ContinentalRatio |-> f,
                                 MaxPlateSpeedMmPerYear |-> v])
                     EXCEPT !.HighestOceanicRidgeElevationKm =
                                e.HighestOceanicRidgeElevationKm,
                            !.AbyssalPlainElevationKm = e.AbyssalPlainElevationKm]
    /\ \E seed \in InitialSeedChoices :
         Settings = [InitialSeed |-> seed, AbyssalPlainElevationKm |-> -6 * Unit,
                     HighestOceanicRidgeElevationKm |-> -Unit]
    /\ hist = [CrustWriters  |-> [j \in 1..MaxPts |-> {}],
               StreamWriters |-> [q \in 1..MaxPlates |-> {}],
               FlagWriters   |-> [j \in 1..MaxPts |-> {}]]
    /\ args = NoArgs /\ out = NoOut /\ tasks = NoTasks
    /\ pc = "idle"

\* RebuildPlanet from its entry to the call of InitializeCrustData.
BeginRebuild ==
    /\ pc = "idle"
    /\ ~SkipRebuild(ComputeSettingsHash(Planet), Planet)
    /\ LET Points == GeneratePoints(Planet.NumSamplePoints, Planet.PlanetRadiusKm,
                                    Planet.SamplePoints)
           Seeds  == GeneratePlateSeeds(Planet.NumPlates)
           a      == AssignPointsToSeeds(Points, Seeds, << >>, << >>, 0)
       IN  /\ ~a.oob
           /\ Planet' = [Planet EXCEPT
                           !.SamplePoints = Points,
                           !.NumGeneratedPoints = Len(Points),
                           !.CachedSettingsHash = ComputeSettingsHash(Planet)]
           /\ \E par \in BOOLEAN :
                args' = [in |-> [SamplePoints |-> Points,
                                 PlateToPoints |-> a.PlateToPoints,
                                 ContinentalRatio |-> Planet.ContinentalRatio,
                                 AbyssalPlainElevationKm |->
                                     Settings.AbyssalPlainElevationKm,
                                 HighestOceanicRidgeElevationKm |->
                                     Settings.HighestOceanicRidgeElevationKm,
                                 Seed |-> Settings.InitialSeed],
                         PointPlateIds |-> a.PointToPlate,
                         NewPlates |-> [k \in 1..Planet.NumPlates |->
                                           NewPlate(k - 1, a.PlateToPoints, Seeds)],
                         bDoParallel |-> par]
    /\ out' = [CrustData |-> << >>, IsPlateContinent |-> << >>]
    /\ pc' = "crust_call"
    /\ UNCHANGED <<Settings, hist, tasks>>

\* InitializeCrustData returns: every plate is done.
JoinCrustStage ==
    /\ pc = "crust_tasks"
    /\ "NewPlates" \in DOMAIN args
    /\ \A q \in 1..Len(tasks) : PlateFinished(q)
    /\ tasks' = NoTasks
    /\ pc' = "dynamics"
    /\ UNCHANGED <<Planet, Settings, hist, args, out>>

DynamicsStage ==
    /\ pc = "dynamics"
    /\ args' = [args EXCEPT !.NewPlates =
                   InitializePlateDynamics(Planet.NumPlates, Planet.PlanetRadiusKm,
                                           Planet.MaxPlateSpeedMmPerYear,
                                           Settings.InitialSeed + 100, @)]
    /\ pc' = "store"
    /\ UNCHANGED <<Planet, Settings, hist, out, tasks>>

\* "Store on component".
StoreOutputs ==
    /\ pc = "store"
    /\ Planet' = [Planet EXCEPT !.Plates = args.NewPlates,
                                !.PointPlateIds = args.PointPlateIds,
                                !.CrustData = out.CrustData,
                                !.NumPlatesGenerated = Len(args.NewPlates)]
    /\ pc' = "returned"
    /\ UNCHANGED <<Settings, hist, args, out, tasks>>

NextStages ==
    BeginRebuild \/ StartCrust \/ PlateStep \/ JoinCrustStage \/ DynamicsStage
        \/ StoreOutputs

\* PlateStep as tasks shows it: some plate task that can run handles a point.
\* A step of PlateStep is a step of PlateTaskRuns and the two are enabled in
\* the same states, so fairness is stated on this one.
PlateTaskRuns ==
    /\ pc = "crust_tasks"
    /\ \E q \in 1..Len(tasks) :
         /\ ~PlateFinished(q)
         /\ args.bDoParallel \/ \A e \in 1..q - 1 : PlateFinished(e)
         /\ tasks' = [tasks EXCEPT
                        ![q] = [k |-> tasks[q].k + 1,
                                s |-> RandAfterPoint(out.IsPlateContinent, q - 1,
                                                     tasks[q].s)]]

SpecStages ==
    /\ InitStages /\ [][NextStages]_vars
    /\ WF_tasks(PlateTaskRuns) /\ WF_vars(JoinCrustStage)

\* Every sample of the crust array has been assigned by a plate task.
CrustStageComplete ==
    /\ tasks = NoTasks
    /\ \A j \in 1..Len(args.in.SamplePoints) : hist.CrustWriters[j] # {}

\* C23: in a call of RebuildPlanet, plate-dynamics initialization starts and
\* the plates, plate ids and crust samples are stored on the component only
\* after every plate task of the crust stage has finished; and once the
\* plate tasks are dispatched the crust stage comes to its end, whatever the
\* order in which the tasks are run.
C23_StageBarrier ==
    /\ [](pc \in {"dynamics", "store", "returned"} => CrustStageComplete)
    /\ [](pc # "returned" =>
              Planet.Plates = << >> /\ Planet.PointPlateIds = << >>
                  /\ Planet.CrustData = << >>)
    /\ [](pc = "dynamics" =>
              \A k \in 1..Len(args.NewPlates) :
                  args.NewPlates[k].RotationAxis = UpVector)
    /\ (pc = "crust_tasks" ~> pc = "dynamics")

\* A call under ParallelFor with two plate tasks that has stored its outputs.
C23_Witness ==
    /\ pc = "returned" /\ args.bDoParallel
    /\ \E j, l \in 1..MaxPts :
           hist.CrustWriters[j] = {1} /\ hist.CrustWriters[l] = {2}
    /\ Len(Planet.CrustData) = MaxPts /\ Len(Planet.Plates) >= 2

\* C24: after RebuildPlanet on a component whose oceanic ridge elevation is
\* r and whose abyssal plain elevation is a, the elevation of every oceanic
\* crust sample lies between a and r, whatever the project-wide settings.
C24_ComponentEndpoints ==
    pc = "returned" =>
        \A i \in 1..Len(Planet.CrustData) :
            Planet.CrustData[i].Type = "Oceanic" =>
                /\ Planet.CrustData[i].Elevation >= Planet.AbyssalPlainElevationKm
                /\ Planet.CrustData[i].Elevation
                       <= Planet.HighestOceanicRidgeElevationKm

\* C25: after RebuildPlanet the CentroidDir stored on every plate that has a
\* member point is the normalized mean of the positions of its members, the
\* centroid crust synthesis measured from (equal up to 1% in the cosine of
\* the angle between the two).
C25_CentroidIsMemberMean ==
    pc = "returned" =>
        \A p \in 1..Len(Planet.Plates) :
            Planet.Plates[p].PointIndices # << >> =>
                DotProduct(Planet.Plates[p].CentroidDir,
                           PlateCentroid(Planet.SamplePoints,
                                         Planet.Plates[p].PointIndices))
                    >= 990 * Unit

(***************************************************************************)
(* SpecSmart: a planet actor whose component is edited and which is        *)
(* constructed (OnConstruction) and started (BeginPlay), in any order.     *)
(***************************************************************************)
\* The "smart rebuild" of OnConstruction and of BeginPlay on component P;
\* RebuildMesh reads the component and changes none of its data.
SmartRebuild(P, S, faces, bWithCGAL) ==
    LET bNeedsRebuild   == Len(P.SamplePoints) # P.NumSamplePoints
        bNeedsAdjacency == Len(P.Triangles) = 0
    IN  IF bNeedsRebuild
        THEN BuildAdjacencyOp(RebuildPlanetOp(P, S).Planet, faces, bWithCGAL).Planet
        ELSE IF bNeedsAdjacency
             THEN BuildAdjacencyOp(P, faces, bWithCGAL).Planet
             ELSE P

OnConstruction ==
    /\ pc = "idle"
    /\ \E faces \in ActorHulls(Planet.NumSamplePoints) :
         Planet' = SmartRebuild(Planet, Settings, faces, args.bWithCGAL)
    /\ hist' = [hist EXCEPT !.lastCall = "construction"]
    /\ UNCHANGED <<Settings, args, out, tasks, pc>>

BeginPlay ==
    /\ pc = "idle"
    /\ \E faces \in ActorHulls(Planet.NumSamplePoints) :
         Planet' = SmartRebuild(Planet, Settings, faces, args.bWithCGAL)
    /\ hist' = [hist EXCEPT !.lastCall = "beginplay"]
    /\ UNCHANGED <<Settings, args, out, tasks, pc>>

NextSmart == ActorEdit \/ OnConstruction \/ BeginPlay

SpecSmart == InitActor /\ [][NextSmart]_vars

\* C26: after every OnConstruction and every BeginPlay the generated data
\* fits the component's settings: with NumSamplePoints > 0 there are
\* NumSamplePoints generated points, and with NumPlates > 0 there are
\* NumPlates generated plates.
C26_SmartRebuild ==
    hist.lastCall \in {"construction", "beginplay"} =>
        /\ Planet.NumSamplePoints > 0 =>
               /\ Len(Planet.SamplePoints) = Planet.NumSamplePoints
               /\ Planet.NumGeneratedPoints = Planet.NumSamplePoints
        /\ Planet.NumPlates > 0 =>
               /\ Len(Planet.Plates) = Planet.NumPlates
               /\ Planet.NumPlatesGenerated = Planet.NumPlates

(***************************************************************************)
(* SpecStream: the seed of a plate's random stream in 32-bit arithmetic.   *)
(*                                                                         *)
(* An int32 is kept as its two 16-bit halves <<high, low>> (two's          *)
(* complement), so that sums and products wrap as the machine's do.        *)
(***************************************************************************)
\* The largest int32.
MaxInt32 == (2^30 - 1) * 2 + 1

Word32(n) == <<(n \div 2^16) % 2^16, n % 2^16>>

Add32(a, b) ==
    LET lo == a[2] + b[2]
    IN  <<(a[1] + b[1] + lo \div 2^16) % 2^16, lo % 2^16>>

\* a * k for a factor k below 2^15.
Mul32(a, k) ==
    LET lo == a[2] * k
    IN  <<(a[1] * k + lo \div 2^16) % 2^16, lo % 2^16>>

\* Seed + 1000 + PlateIdx * 10007, the argument of FRandomStream LocalRand.
LocalRandSeedEvenStride(Seed, PlateIdx) ==
    Add32(Add32(Word32(Seed), Word32(1000)), Mul32(Word32(PlateIdx), 10008))
LocalRandSeed(Seed, PlateIdx) ==
    Add32(Add32(Word32(Seed), Word32(1000)), Mul32(Word32(PlateIdx), 10007))

\* Plate indices below MaxInt32: the first ones, every power of two, the
\* indices around the first product that passes 2^31, and the last ones.
PlateIndexSamples ==
    {2^k : k \in 0..30} \cup {0, 3, 214598, 214599, 2^30 + 1, MaxInt32 - 2, MaxInt32 - 1}

\* Seeds: small ones, the largest int32 and a negative one.
StreamSeeds == {0, MaxSeed, MaxInt32, -1}

InitStream ==
    /\ Planet = NoPlanet /\ Settings = NoSettings /\ hist = NoHist /\ tasks = NoTasks
    /\ \E Seed \in StreamSeeds, p \in PlateIndexSamples, q \in PlateIndexSamples :
         args = [Seed |-> Seed, p |-> p, q |-> q]
    /\ out = [p |-> << >>, q |-> << >>]
    /\ pc = "call"

\* WorkPerPlate(p) and WorkPerPlate(q) construct their LocalRand.
CallLocalRand ==
    /\ pc = "call"
    /\ out' = [p |-> LocalRandSeed(args.Seed, args.p),
               q |-> LocalRandSeed(args.Seed, args.q)]
    /\ pc' = "returned"
    /\ UNCHANGED <<Planet, Settings, hist, args, tasks>>

NextStream == CallLocalRand

SpecStream == InitStream /\ [][NextStream]_vars

\* C27: the stream seed of plate p is Seed + 1000 + p * 10007 in 32-bit
\* arithmetic, the same for the same (seed, p), and two different plate
\* indices below 2^31 - 1 get different stream seeds, also when the product
\* wraps; where nothing wraps it is the seed the crust tasks use.
C27_StreamSeeds ==
    pc = "returned" =>
        /\ args.p # args.q => out.p # out.q
        /\ args.p = args.q => out.p = out.q
        /\ (args.Seed <= MaxSeed /\ args.Seed >= 0 /\ args.p <= 214598) =>
               out.p = Word32(args.Seed + 1000 + args.p * 10007)
        /\ (args.Seed = 0 /\ args.p = 214599) => out.p = <<32768, 9545>>

\* Two plates 2^29 apart, the product of the second one having wrapped, with
\* the largest seed.
C27_Witness ==
    /\ pc = "returned"
    /\ args.Seed = MaxInt32 /\ args.p = 2^29 /\ args.q = 2^30
    /\ out.p # out.q /\ out.q[1] < 2^15

(***************************************************************************)
(* SpecAxis: InitializePlateDynamics step by step, one action per draw,    *)
(* per test of the do-while condition and per turn of the plate loop.      *)
(***************************************************************************)
\* RandomAxis as one turn of the do-while draws it from stream state s.
RandomAxisDraw(s) ==
    <<FRandRange(s, -Unit, Unit), FRandRange(MutateSeed(s), -Unit, Unit),
      FRandRange(MutateSeed(MutateSeed(s)), -Unit, Unit)>>

\* The stream after the three draws of one turn.
AfterAxisDraw(s) == MutateSeed(MutateSeed(MutateSeed(s)))

AxisRejectedNoThreshold(RandomAxis) == DotProduct(RandomAxis, RandomAxis) < 0

\* The do-while condition RandomAxis.SizeSquared() < 0.01f.
AxisRejected(RandomAxis) == DotProduct(RandomAxis, RandomAxis) < (Unit * Unit) \div 100

\* Seeds: the small ones, and every stream state from which the first or
\* the second plate's first draw is shorter than a tenth.
AxisSeeds ==
    (0..MaxSeed) \cup
    {s \in 0..65535 :
        LET d1 == RandomAxisDraw(s)
            d2 == RandomAxisDraw(MutateSeed(AfterAxisDraw(s)))
        IN  \/ DotProduct(d1, d1) * 100 < Unit * Unit
            \/ DotProduct(d2, d2) * 100 < Unit * Unit}

InitAxis ==
    /\ Planet = NoPlanet /\ Settings = NoSettings /\ hist = NoHist /\ tasks = NoTasks
    /\ \E M \in 0..MaxPlates, S \in AxisSeeds :
         /\ args = [NumPlates |-> M, PlanetRadiusKm |-> 1,
                    MaxPlateSpeedMmPerYear |-> 100, Seed |-> S,
                    Plates |-> PlatesBefore(M)]
         /\ out = [Plates |-> PlatesBefore(M), RandStream |-> 0, PlateIdx |-> 0,
                   RandomAxis |-> ZeroVector, Draws |-> 0]
    /\ pc = "call"

\* RandStream(Seed) and the first test of PlateIdx < OutPlates.Num().
EnterPlateLoop ==
    /\ pc = "call"
    /\ out' = [out EXCEPT !.RandStream = RandomStream(args.Seed)]
    /\ pc' = IF 0 < Len(out.Plates) THEN "draw" ELSE "done"
    /\ UNCHANGED <<Planet, Settings, hist, args, tasks>>

\* The body of the do-while: three FRandRange draws.
DrawRandomAxis ==
    /\ pc = "draw"
    /\ out' = [out EXCEPT !.RandomAxis = RandomAxisDraw(out.RandStream),
                          !.RandStream = AfterAxisDraw(out.RandStream),
                          !.Draws = IF @ < 3 THEN @ + 1 ELSE @]
    /\ pc' = "while"
    /\ UNCHANGED <<Planet, Settings, hist, args, tasks>>

\* The do-while condition holds: draw again.
RedrawAxis ==
    /\ pc = "while"
    /\ AxisRejected(out.RandomAxis)
    /\ pc' = "draw"
    /\ UNCHANGED <<Planet, Settings, hist, args, out, tasks>>

\* The do-while condition fails: the axis and the angular velocity are stored.
StoreAxis ==
    /\ pc = "while"
    /\ ~AxisRejected(out.RandomAxis)
    /\ out' = [out EXCEPT
                  !.Plates[out.PlateIdx + 1] =
                      [@ EXCEPT !.RotationAxis = GetSafeNormal(out.RandomAxis),
                                !.AngularVelocity =
                                    FRandRange(out.RandStream,
                                        -MaxAngularVelocity(args.PlanetRadiusKm,
                                                            args.MaxPlateSpeedMmPerYear),
                                        MaxAngularVelocity(args.PlanetRadiusKm,
                                                           args.MaxPlateSpeedMmPerYear))],
                  !.RandStream = MutateSeed(out.RandStream)]
    /\ pc' = "stored"
    /\ UNCHANGED <<Planet, Settings, hist, args, tasks>>

\* ++PlateIdx and the test PlateIdx < OutPlates.Num().
NextPlate ==
    /\ pc = "stored"
    /\ out' = [out EXCEPT !.PlateIdx = @ + 1, !.Draws = 0]
    /\ pc' = IF out.PlateIdx + 1 < Len(out.Plates) THEN "draw" ELSE "done"
    /\ UNCHANGED <<Planet, Settings, hist, args, tasks>>

NextAxis == EnterPlateLoop \/ DrawRandomAxis \/ RedrawAxis \/ StoreAxis \/ NextPlate

\* The calling thread runs the loop to its end: a step that can be taken is
\* taken.
SpecAxis == InitAxis /\ [][NextAxis]_vars /\ WF_vars(NextAxis)

\* C28: the do-while of a plate is left only with a vector of squared length
\* at least 0.01, the axis stored from it is that vector normalized, of unit
\* length (to within 1%) and not the zero vector; every plate's do-while is
\* left and the call returns, with the plates InitializePlateDynamics gives.
C28_AxisNeverDegenerate ==
    /\ [](pc = "stored" =>
            LET Axis == out.Plates[out.PlateIdx + 1].RotationAxis
            IN  /\ DotProduct(out.RandomAxis, out.RandomAxis) * 100 >= Unit * Unit
                /\ Axis = GetSafeNormal(out.RandomAxis)
                /\ Axis # ZeroVector
                /\ Abs(DotProduct(Axis, Axis) - Unit * Unit) * 100 <= Unit * Unit)
    /\ [](pc = "done" =>
            /\ out.Plates = InitializePlateDynamics(
                                args.NumPlates, args.PlanetRadiusKm,
                                args.MaxPlateSpeedMmPerYear, args.Seed, args.Plates)
            /\ \A k \in 1..Len(out.Plates) : out.Plates[k].RotationAxis # ZeroVector)
    /\ (pc = "draw" ~> pc = "stored")
    /\ <>(pc = "done")

\* The second plate's axis is stored after its first vector was rejected and
\* drawn again.
C28_Witness ==
    /\ pc = "stored" /\ out.PlateIdx = 1 /\ out.Draws = 2
    /\ out.Plates[2].RotationAxis # ZeroVector
    /\ out.Plates[2].RotationAxis # out.Plates[1].RotationAxis

(***************************************************************************)
(* Index safety of the seeding (checked under SpecSeed).                   *)
(***************************************************************************)
\* C29: for every point array and every seed list, the empty one included,
\* AssignPointsToSeeds returns without an access outside the M plate lists,
\* there are M lists afterwards, and every stored plate id is in [0, M).
C29_SeedingIndexSafe ==
    pc # "call" =>
        /\ pc = "returned"
        /\ Len(out.PlateToPoints) = Len(args.Seeds)
        /\ Len(out.PointToPlate) = Len(args.Points)
        /\ \A i \in 1..Len(out.PointToPlate) :
               out.PointToPlate[i] >= 0 /\ out.PointToPlate[i] < Len(args.Seeds)

=============================================================================
